---- MODULE Spec2Model ----
(***************************************************************************)
(* A model of the geometry construction / lifetime engine of calzone       *)
(* (src/src/geometry.cc): Solid Assembly, Volume Assembly, the reference   *)
(* counted GeometryData container, the GeometryBorrow / VolumeBorrow       *)
(* wrappers, the Goupil (secondary consumer) entry points and the          *)
(* transform / query subsystem.                                            *)
(*                                                                         *)
(* Conventions.                                                            *)
(*  - A path name is the string of the volume names joined by ".", as      *)
(*    fmt::format("{}.{}", path, name) builds it.                          *)
(*  - A pointer to a native object is the record describing the object;    *)
(*    the null pointer of each kind is a record of the same shape.         *)
(*  - Lengths are integers in Geant4's native unit (mm), CLHEP::cm = 10.   *)
(*  - Rotations are quarter turns about the z axis, 0..3.                  *)
(***************************************************************************)
EXTENDS Integers, Sequences, FiniteSets, TLC

VARIABLES
    LAST_ID,          \* GeometryData::LAST_ID
    INSTANCES,        \* GeometryData::INSTANCES : root pointer -> container
    data,             \* the GeometryData objects ever successfully built
    GOUPIL_GEOMETRY,  \* the container designated by set_goupil (0 = nullptr)
    error,            \* the process-wide last-error slot
    geometries,       \* the primary caller's GeometryBorrow objects
    volumes,          \* the primary caller's VolumeBorrow objects (a bag)
    goupil,           \* roots handed to the secondary consumer (a bag)
    heap,             \* native objects allocated and not yet deleted
    crashed,          \* the process dereferenced a null or dangling pointer
    specs,            \* history: the description each container was built from
    last,             \* history: the last operation and what it returned
    RUN_AGENT,        \* the agent of the run in progress (0 = nullptr)
    theEngine,        \* G4Random::getTheEngine()
    altEngine,        \* RandomImpl::altEngine ("null" = nullptr)
    manager,          \* run_simulation's static G4RunManager exists
    run,              \* the position of run_simulation and its BeamOn calls
    MATERIALS         \* the materials registered by name, with their hash

\* The state of the simulation and of the materials.
simulation == << RUN_AGENT, theEngine, altEngine, manager, run >>
vars == << LAST_ID, INSTANCES, data, GOUPIL_GEOMETRY, error, geometries,
           volumes, goupil, heap, crashed, specs, last, simulation,
           MATERIALS >>

(***************************************************************************)
(* Bounds of the model.                                                    *)
(***************************************************************************)
MaxGeometries == 2
MaxBorrows == 1
MaxGoupil == 1

(***************************************************************************)
(* Units, vectors and affine transforms.                                   *)
(***************************************************************************)
cm == 10

Vec3(x, y, z) == << x, y, z >>
Zero3 == Vec3(0, 0, 0)
VAdd(a, b) == Vec3(a[1] + b[1], a[2] + b[2], a[3] + b[3])
VSub(a, b) == Vec3(a[1] - b[1], a[2] - b[2], a[3] - b[3])
VNeg(a) == Vec3(-a[1], -a[2], -a[3])
VScale(k, a) == Vec3(k * a[1], k * a[2], k * a[3])
Min(a, b) == IF a < b THEN a ELSE b
Max(a, b) == IF a > b THEN a ELSE b

\* A row vector times the rotation matrix of q quarter turns.
Rotate(q, v) ==
    CASE q % 4 = 0 -> v
      [] q % 4 = 1 -> Vec3(v[2], -v[1], v[3])
      [] q % 4 = 2 -> Vec3(-v[1], -v[2], v[3])
      [] q % 4 = 3 -> Vec3(-v[2], v[1], v[3])

\* G4AffineTransform: the point p is sent to p * rot + t.
Transform(q, t) == [rot |-> q % 4, t |-> t]
Identity == Transform(0, Zero3)
IsTranslated(a) == a.t # Zero3
IsRotated(a) == a.rot # 0
TransformPoint(a, p) == VAdd(Rotate(a.rot, p), a.t)
Inverse(a) == Transform(4 - a.rot, VNeg(Rotate(4 - a.rot, a.t)))
InverseTransformPoint(a, p) == Rotate(4 - a.rot, VSub(p, a.t))
\* G4AffineTransform::operator* : a first, then b.
Product(a, b) == Transform(a.rot + b.rot, VAdd(Rotate(b.rot, a.t), b.t))

(***************************************************************************)
(* The error slot (Rust side of the bridge, declared in calzone.h).        *)
(***************************************************************************)
NoError == [type |-> "None", what |-> "", a |-> "", b |-> ""]
ValueError(what, a, b) ==
    [type |-> "ValueError", what |-> what, a |-> a, b |-> b]
any_error(e) == e # NoError
clear_error == NoError
set_error(e, new) == new
get_error(e) == e

(***************************************************************************)
(* Volume descriptions (the Rust Volume, read through its accessors).      *)
(***************************************************************************)
BoxShape(x, y, z) ==
    [type |-> "Box", size |-> Vec3(x, y, z), safety |-> 0, valid |-> TRUE]
EnvelopeShape(safety) ==
    [type |-> "Envelope", size |-> Zero3, safety |-> safety, valid |-> TRUE]
TessellatedShape(valid) ==
    [type |-> "Tessellation", size |-> Vec3(2, 2, 2), safety |-> 0,
     valid |-> valid]

Volume(name, shape, material, position, rotation, roles, subtract, overlaps, vs) ==
    [name |-> name, shape |-> shape, material |-> material,
     position |-> position, rotation |-> rotation,
     sensitive |-> roles # 0, roles |-> roles,
     subtract |-> subtract, overlaps |-> overlaps, volumes |-> vs]

is_translated(v) == v.position # Zero3
is_rotated(v) == v.rotation # 0

\* fmt::format("{}.{}", path, name)
Dotted(path, name) == path \o "." \o name
\* The path name of build_solids and build_volumes: the name alone under an
\* empty path.
Pathname(path, name) == IF path = "" THEN name ELSE Dotted(path, name)

local_transform(v) == Transform(v.rotation, VScale(cm, v.position))

(***************************************************************************)
(* Native solids.  n tells apart the solids created under the same name.   *)
(***************************************************************************)
NullSolid ==
    [type |-> "null", path |-> "", n |-> 0, lo |-> Zero3, hi |-> Zero3]
Solid(type, path, n, lo, hi) ==
    [type |-> type, path |-> path, n |-> n, lo |-> lo, hi |-> hi]

\* s->GetExtent()
GetExtent(s) == [lo |-> s.lo, hi |-> s.hi]

VMin(a, b) == Vec3(Min(a[1], b[1]), Min(a[2], b[2]), Min(a[3], b[3]))
VMax(a, b) == Vec3(Max(a[1], b[1]), Max(a[2], b[2]), Max(a[3], b[3]))
Half(x) == x \div 2
VHalf(a) == Vec3(Half(a[1]), Half(a[2]), Half(a[3]))

\* s->CalculateExtent(axis, limits, t, min, max): the extent of the
\* transformed bounding box.
CalculateExtent(s, t) ==
    [lo |-> VMin(TransformPoint(t, s.lo), TransformPoint(t, s.hi)),
     hi |-> VMax(TransformPoint(t, s.lo), TransformPoint(t, s.hi))]

\* std::map::operator[] : a missing key is inserted with a null value.
Subscript(map, key, null) ==
    IF key \in DOMAIN map THEN map ELSE map @@ (key :> null)

Erase(map, key) == [k \in DOMAIN map \ {key} |-> map[k]]

(***************************************************************************)
(* The heap of native objects: what was allocated with new and not yet     *)
(* deleted, each object named by the container under construction, its     *)
(* kind, its path and its serial number.                                   *)
(***************************************************************************)
Object(id, kind, path, n) == [geo |-> id, kind |-> kind, path |-> path, n |-> n]
SolidObject(id, s) == Object(id, s.type, s.path, s.n)

\* new : the pointer to a live object of the same name is overwritten and
\* that object is lost.
New(h, o) ==
    [live |-> h.live \cup {o}, twice |-> h.twice,
     lost |-> h.lost \cup ({o} \cap h.live)]
\* delete p : nothing for a null pointer, a double free for a dead object.
Delete(h, o) ==
    IF o.kind = "null" THEN h
    ELSE [live |-> h.live \ {o}, twice |-> h.twice \cup ({o} \ h.live),
          lost |-> h.lost]
EmptyHeap == [live |-> {}, twice |-> {}, lost |-> {}]

RECURSIVE DeleteAll(_, _, _)
DeleteAll(h, id, solids) ==
    IF Len(solids) = 0 THEN h
    ELSE DeleteAll(Delete(h, SolidObject(id, Head(solids))), id, Tail(solids))

\* The values of a std::map, in key order immaterial for deletion.
RECURSIVE Values(_)
Values(map) ==
    IF DOMAIN map = {} THEN << >>
    ELSE << map[CHOOSE k \in DOMAIN map : TRUE] >>
         \o Values(Erase(map, CHOOSE k \in DOMAIN map : TRUE))

(***************************************************************************)
(* Solid Assembly.  The assembly state st holds the solids table, the      *)
(* orphans list, the heap, the error slot and the order of the visits.     *)
(***************************************************************************)
DBL_MAX == 1000000

\* The extent of one daughter in the frame of its mother.
daughter_extent(s, t) ==
    IF IsTranslated(t) \/ IsRotated(t)
    THEN CalculateExtent(s, t)
    ELSE GetExtent(s)

\* The running min / max of build_envelope.
update_limits(acc, e) ==
    [lo |-> VMin(acc.lo, e.lo), hi |-> VMax(acc.hi, e.hi)]

RECURSIVE envelope_limits(_, _, _, _)
envelope_limits(vs, daughters, i, acc) ==
    IF i > Len(vs) THEN acc
    ELSE envelope_limits(vs, daughters, i + 1,
             update_limits(acc, daughter_extent(daughters[i],
                                                local_transform(vs[i]))))

\* The G4Box of half widths half, displaced by t when t is not null.
envelope_solid(pathname, half, t, st) ==
    IF t = Zero3
    THEN [solid |-> Solid("Box", pathname, st.next, VNeg(half), half),
          st |-> [st EXCEPT
                    !.heap = New(@, Object(st.id, "Box", pathname, st.next)),
                    !.next = @ + 1]]
    ELSE [solid |-> Solid("DisplacedSolid", pathname, st.next + 1,
                          VSub(t, half), VAdd(t, half)),
          st |-> [st EXCEPT
                    !.heap = New(New(@,
                        Object(st.id, "Box", pathname, st.next)),
                        Object(st.id, "DisplacedSolid", pathname,
                               st.next + 1)),
                    !.orphans = Append(@, Solid("Box", pathname, st.next,
                                                VNeg(half), half)),
                    !.next = @ + 2]]

\* A variant that leaves the box centred on the origin.
envelope_box_centred(pathname, limits, safety, st) ==
    envelope_solid(pathname,
        VAdd(VHalf(VSub(limits.hi, limits.lo)), Vec3(safety, safety, safety)),
        Zero3, st)

envelope_box(pathname, limits, safety, st) ==
    envelope_solid(pathname,
        VAdd(VHalf(VSub(limits.hi, limits.lo)), Vec3(safety, safety, safety)),
        VHalf(VAdd(limits.hi, limits.lo)), st)

build_envelope(pathname, volume, daughters, st) ==
    envelope_box(pathname,
        envelope_limits(volume.volumes, daughters, 1,
            [lo |-> Vec3(DBL_MAX, DBL_MAX, DBL_MAX),
             hi |-> Vec3(-DBL_MAX, -DBL_MAX, -DBL_MAX)]),
        volume.shape.safety * cm, st)

build_geant4_tessellation(pathname, volume, st) ==
    IF volume.shape.valid
    THEN [solid |-> Solid("G4TessellatedSolid", pathname, st.next,
                          VNeg(VHalf(VScale(cm, volume.shape.size))),
                          VHalf(VScale(cm, volume.shape.size))),
          st |-> [st EXCEPT
                    !.heap = New(@, Object(st.id, "G4TessellatedSolid",
                                           pathname, st.next)),
                    !.next = @ + 1]]
    ELSE \* new, a rejected facet, delete solid.
         [solid |-> NullSolid,
          st |-> [st EXCEPT
                    !.next = @ + 1,
                    !.error = set_error(@, ValueError(
                        "bad vertices for tessellation", pathname, ""))]]

build_tessellation(algorithm, pathname, volume, st) ==
    IF algorithm = "Bvh"
    THEN [solid |-> Solid("Tessellation", pathname, st.next,
                          VNeg(VHalf(VScale(cm, volume.shape.size))),
                          VHalf(VScale(cm, volume.shape.size))),
          st |-> [st EXCEPT
                    !.heap = New(@, Object(st.id, "Tessellation",
                                           pathname, st.next)),
                    !.next = @ + 1]]
    ELSE build_geant4_tessellation(pathname, volume, st)

\* A variant of the selection with the product taken the other way round.
relative_transform_reversed(t0, t1) ==
    IF IsTranslated(t1) \/ IsRotated(t1)
    THEN IF IsTranslated(t0) \/ IsRotated(t0)
         THEN Product(Inverse(t1), t0)
         ELSE Inverse(t1)
    ELSE IF IsTranslated(t0) \/ IsRotated(t0)
         THEN t0
         ELSE Identity

\* The transform of the subtracted solid relative to the solid it is
\* subtracted from: t0 is the transform of the latter, t1 of the former.
relative_transform(t0, t1) ==
    IF IsTranslated(t1) \/ IsRotated(t1)
    THEN IF IsTranslated(t0) \/ IsRotated(t0)
         THEN Product(t0, Inverse(t1))
         ELSE Inverse(t1)
    ELSE IF IsTranslated(t0) \/ IsRotated(t0)
         THEN t0
         ELSE Identity

\* new G4SubtractionSolid(path0, solid0, solid1, relative), which replaces
\* solid0 in the table; solid0 goes to the orphans.
new_subtraction(path0, solid0, solid1, relative, solids, st) ==
    [st EXCEPT
       !.heap = New(@, Object(st.id, "SubtractionSolid", path0, st.next)),
       !.next = @ + 1,
       !.orphans = Append(@, solid0),
       !.solids = [solids EXCEPT ![path0] =
                      Solid("SubtractionSolid", path0, st.next,
                            solid0.lo, solid0.hi)],
       !.booleans = Append(@, [solid |-> Solid("SubtractionSolid", path0,
                                               st.next, solid0.lo, solid0.hi),
                               base |-> solid0,
                               tool |-> solid1,
                               transform |-> relative])]

\* The lookups of the subtract lambda, through operator[].
subtract_entries(path0, path1, name0, name1, solids, transforms, st) ==
    [transforms |-> transforms,
     relative |-> relative_transform(transforms[name0], transforms[name1]),
     st |-> new_subtraction(path0, solids[path0], solids[path1],
                relative_transform(transforms[name0], transforms[name1]),
                solids, st)]

\* A variant of the lambda that looks the solids up under their bare names.
subtract_undotted(pathname, transforms, item, st) ==
    subtract_entries(item[1], item[2], item[1], item[2],
        Subscript(Subscript(st.solids, item[1], NullSolid), item[2],
                  NullSolid),
        Subscript(Subscript(transforms, item[1], Identity),
                  item[2], Identity),
        st)

\* The subtract lambda of build_solids: item = << name0, name1 >>.
subtract(pathname, transforms, item, st) ==
    subtract_entries(Dotted(pathname, item[1]), Dotted(pathname, item[2]),
        item[1], item[2],
        Subscript(Subscript(st.solids, Dotted(pathname, item[1]),
                            NullSolid),
                  Dotted(pathname, item[2]), NullSolid),
        Subscript(Subscript(transforms, item[1], Identity),
                  item[2], Identity),
        st)

RECURSIVE subtract_all(_, _, _, _)
RECURSIVE subtract_next(_, _, _)
subtract_next(pathname, items, r) ==
    subtract_all(pathname, r.transforms, Tail(items), r.st)

subtract_all(pathname, transforms, items, st) ==
    IF Len(items) = 0 THEN st
    ELSE subtract_next(pathname, items,
                       subtract(pathname, transforms, Head(items), st))

RECURSIVE Pairs(_, _)
Pairs(name, subtracted) ==
    IF Len(subtracted) = 0 THEN << >>
    ELSE << << name, Head(subtracted) >> >> \o Pairs(name, Tail(subtracted))

RECURSIVE build_solids(_, _, _, _)
RECURSIVE build_sub_solids(_, _, _, _, _)
RECURSIVE add_daughter(_, _, _, _, _, _)

\* A variant of the turn that goes on with the later siblings after a
\* failure.
add_daughter_anyway(volume, algorithm, pathname, i, acc, r) ==
    IF r.solid = NullSolid
    THEN [build_sub_solids(volume, algorithm, pathname, i + 1,
                           [acc EXCEPT !.st = r.st])
            EXCEPT !.failed = TRUE]
    ELSE build_sub_solids(volume, algorithm, pathname, i + 1,
           [st |-> r.st,
            failed |-> FALSE,
            daughters |-> Append(acc.daughters, r.solid),
            transforms |->
                [n \in DOMAIN acc.transforms \cup {volume.volumes[i].name} |->
                    IF n = volume.volumes[i].name
                    THEN local_transform(volume.volumes[i])
                    ELSE acc.transforms[n]],
            subtractions |->
                acc.subtractions \o Pairs(volume.volumes[i].name,
                                          volume.volumes[i].subtract)])

\* One turn of the loop over volume.volumes(): r is what build_solids
\* returned for the i-th child v.
add_daughter(volume, algorithm, pathname, i, acc, r) ==
    IF r.solid = NullSolid
    THEN [acc EXCEPT !.st = r.st, !.failed = TRUE]
    ELSE build_sub_solids(volume, algorithm, pathname, i + 1,
           [st |-> r.st,
            failed |-> FALSE,
            daughters |-> Append(acc.daughters, r.solid),
            transforms |->
                [n \in DOMAIN acc.transforms \cup {volume.volumes[i].name} |->
                    IF n = volume.volumes[i].name
                    THEN local_transform(volume.volumes[i])
                    ELSE acc.transforms[n]],
            subtractions |->
                acc.subtractions \o Pairs(volume.volumes[i].name,
                                          volume.volumes[i].subtract)])

\* The loop over volume.volumes() of build_solids, from the i-th child on.
build_sub_solids(volume, algorithm, pathname, i, acc) ==
    IF i > Len(volume.volumes) THEN acc
    ELSE add_daughter(volume, algorithm, pathname, i, acc,
             build_solids(volume.volumes[i], algorithm, pathname, acc.st))

\* The switch over volume.shape().
build_shape(volume, algorithm, pathname, daughters, st) ==
    CASE volume.shape.type = "Box" ->
           [solid |-> Solid("Box", pathname, st.next,
                            VNeg(VHalf(VScale(cm, volume.shape.size))),
                            VHalf(VScale(cm, volume.shape.size))),
            st |-> [st EXCEPT
                      !.heap = New(@, Object(st.id, "Box", pathname, st.next)),
                      !.next = @ + 1]]
      [] volume.shape.type = "Envelope" ->
           build_envelope(pathname, volume, daughters, st)
      [] volume.shape.type = "Tessellation" ->
           build_tessellation(algorithm, pathname, volume, st)

\* The end of build_solids: solids[pathname] = solid, or the error.
register_solid(pathname, built) ==
    IF built.solid = NullSolid
    THEN [solid |-> NullSolid,
          st |-> IF any_error(built.st.error) THEN built.st
                 ELSE [built.st EXCEPT !.error = set_error(@,
                          ValueError("could not create solid",
                                     pathname, ""))]]
    ELSE [solid |-> built.solid,
          st |-> [built.st EXCEPT
                    !.solids = [p \in DOMAIN @ \cup {pathname} |->
                                  IF p = pathname THEN built.solid
                                  ELSE @[p]]]]

\* build_solids once the daughters are built (sub).
build_solid(volume, algorithm, pathname, sub) ==
    IF sub.failed THEN [solid |-> NullSolid, st |-> sub.st]
    ELSE register_solid(pathname,
             build_shape(volume, algorithm, pathname, sub.daughters,
                 subtract_all(pathname, sub.transforms,
                     volume.overlaps \o sub.subtractions, sub.st)))

build_solids(volume, algorithm, path, st0) ==
    build_solid(volume, algorithm, Pathname(path, volume.name),
        build_sub_solids(volume, algorithm, Pathname(path, volume.name), 1,
            [st |-> [st0 EXCEPT
                       !.visited = Append(@, Pathname(path, volume.name))],
             failed |-> FALSE,
             daughters |-> << >>,
             transforms |-> << >>,
             subtractions |-> << >>]))

(***************************************************************************)
(* Volume Assembly.                                                        *)
(***************************************************************************)
\* G4NistManager::FindOrBuildMaterial, then the registered materials.
NistMaterials == {"G4_AIR", "G4_WATER"}
get_material(name) == name \in NistMaterials

NullDetector == [present |-> FALSE, roles |-> 0, n |-> 0]
Detector(roles, n) == [present |-> TRUE, roles |-> roles, n |-> n]

Logical(path, solid, material, sensitive, voxel, daughters) ==
    [path |-> path, solid |-> solid, material |-> material,
     sensitive |-> sensitive, voxel |-> voxel, daughters |-> daughters]
NullLogical == Logical("", NullSolid, "", NullDetector, FALSE, << >>)

Placement(name, rotation, translation, logical) ==
    [name |-> name, rotation |-> rotation, translation |-> translation,
     logical |-> logical]
NullPlacement == Placement("", 0, Zero3, NullLogical)

LogicalObject(id, l) == Object(id, "G4LogicalVolume", l.path, 0)
PlacementObject(id, p) == Object(id, "G4PVPlacement", p.name, 0)
DetectorObject(id, l) ==
    IF l.sensitive.present
    THEN Object(id, "SamplerImpl", l.path, l.sensitive.n)
    ELSE Object(id, "null", "", 0)
VoxelObject(id, l) ==
    IF l.voxel THEN Object(id, "G4SmartVoxelHeader", l.path, 0)
    ELSE Object(id, "null", "", 0)

RECURSIVE drop_them_all(_, _, _)
RECURSIVE drop_daughters(_, _, _)

\* drop_them_all(G4LogicalVolume *)
drop_them_all(h, id, logical) ==
    Delete(Delete(Delete(Delete(
        drop_daughters(h, id, logical.daughters),
        VoxelObject(id, logical)),
        SolidObject(id, logical.solid)),
        DetectorObject(id, logical)),
        LogicalObject(id, logical))

\* The while loop of drop_them_all, and drop_them_all(G4VPhysicalVolume *).
drop_daughters(h, id, daughters) ==
    IF Len(daughters) = 0 THEN h
    ELSE drop_daughters(
             Delete(drop_them_all(h, id, Head(daughters).logical),
                    PlacementObject(id, Head(daughters))),
             id, Tail(daughters))

drop_world(h, id, volume) ==
    Delete(drop_them_all(h, id, volume.logical), PlacementObject(id, volume))

RECURSIVE build_volumes(_, _, _)
RECURSIVE build_sub_volumes(_, _, _, _)
RECURSIVE place_daughter(_, _, _, _, _)

\* rotation = new G4RotationMatrix() for a rotated child: the placement
\* receives the pointer, and no statement of the program deletes it.
new_rotation(h, id, v, v_path) ==
    IF is_rotated(v) THEN New(h, Object(id, "G4RotationMatrix", v_path, 0))
    ELSE h

\* new SamplerImpl(pathname, roles) for a sensitive volume.
new_sampler(h, id, volume, pathname) ==
    IF volume.sensitive THEN New(h, Object(id, "SamplerImpl", pathname, 0))
    ELSE h

\* new G4PVPlacement(rotation, position, l, v_path, logical, false, 0)
daughter_placement(v, pathname, l) ==
    Placement(Dotted(pathname, v.name), v.rotation, VScale(cm, v.position),
              l)

\* One turn of the loop over volume.volumes(): r is what build_volumes
\* returned for the i-th child.
place_daughter(volume, pathname, i, acc, r) ==
    IF r.logical = NullLogical
    THEN [logical |-> NullLogical,
          st |-> [r.st EXCEPT
                    !.heap = drop_them_all(@, r.st.id, acc.logical)]]
    ELSE build_sub_volumes(volume, pathname, i + 1,
           [logical |-> [acc.logical EXCEPT
                           !.daughters = Append(@, daughter_placement(
                               volume.volumes[i], pathname, r.logical))],
            st |-> [r.st EXCEPT !.heap = New(
                      new_rotation(@, r.st.id, volume.volumes[i],
                          Dotted(pathname, volume.volumes[i].name)),
                      Object(r.st.id, "G4PVPlacement",
                             Dotted(pathname, volume.volumes[i].name),
                             0))]])

\* The loop over volume.volumes() of build_volumes, from the i-th child on;
\* acc.logical is the logical volume with the daughters placed so far.
build_sub_volumes(volume, pathname, i, acc) ==
    IF i > Len(volume.volumes) THEN acc
    ELSE place_daughter(volume, pathname, i, acc,
             build_volumes(volume.volumes[i], pathname, acc.st))

\* new G4LogicalVolume(solid, material, pathname), with its sampler.
new_logical(volume, pathname, solids) ==
    Logical(pathname,
            IF pathname \in DOMAIN solids THEN solids[pathname]
            ELSE NullSolid,
            volume.material,
            IF volume.sensitive THEN Detector(volume.roles, 0)
            ELSE NullDetector,
            FALSE, << >>)

\* A variant that leaves the entry in the table.
take_solid_kept(solids, pathname) == solids

\* i = solids.find(pathname); solid = i->second; solids.erase(i)
take_solid(solids, pathname) == Erase(solids, pathname)

\* build_volumes once the path name is known.
build_logical(volume, pathname, st) ==
    IF ~get_material(volume.material)
    THEN [logical |-> NullLogical,
          st |-> [st EXCEPT
                    !.visited = Append(@, pathname),
                    !.error = set_error(@,
                        ValueError("undefined material", pathname,
                                   volume.material))]]
    ELSE build_sub_volumes(volume, pathname, 1,
           [logical |-> new_logical(volume, pathname, st.solids),
            st |-> [st EXCEPT
                      !.visited = Append(@, pathname),
                      !.solids = take_solid(@, pathname),
                      !.undefined = @ \/ pathname \notin DOMAIN st.solids,
                      !.heap = new_sampler(New(@,
                          Object(st.id, "G4LogicalVolume", pathname, 0)),
                          st.id, volume, pathname)]])

build_volumes(volume, path, st) ==
    build_logical(volume, Pathname(path, volume.name), st)

RECURSIVE map_volumes(_, _, _)
RECURSIVE map_daughters(_, _, _, _)

Node(id, path) == [geo |-> id, path |-> path]
NullNode == Node(0, "")

\* A variant of the mapping that records no mother.
map_motherless(id, self, daughter, maps) ==
    [elements |-> [Subscript(maps.elements, daughter.name, NullNode)
                     EXCEPT ![daughter.name] = Node(id, daughter.name)],
     mothers |-> Subscript(maps.mothers, Node(id, daughter.name), NullNode)]

\* elements[name] = daughter; mothers[daughter] = self;
map_daughter(id, self, daughter, maps) ==
    [elements |-> [Subscript(maps.elements, daughter.name, NullNode)
                     EXCEPT ![daughter.name] = Node(id, daughter.name)],
     mothers |-> [Subscript(maps.mothers, Node(id, daughter.name), NullNode)
                    EXCEPT ![Node(id, daughter.name)] = Node(id, self.name)]]

\* The loop of map_volumes over the daughters of self, from the i-th on;
\* maps = [elements, mothers].
map_daughters(id, self, i, maps) ==
    IF i > Len(self.logical.daughters) THEN maps
    ELSE map_daughters(id, self, i + 1,
            map_volumes(id, self.logical.daughters[i],
                map_daughter(id, self, self.logical.daughters[i], maps)))

map_volumes(id, self, maps) == map_daughters(id, self, 1, maps)

(***************************************************************************)
(* The managed geometry data.                                              *)
(***************************************************************************)
GeometryData(id, world, elements, mothers, rc, orphans, alive) ==
    [id |-> id, world |-> world, elements |-> elements, mothers |-> mothers,
     rc |-> rc, orphans |-> orphans, alive |-> alive]

Assembly(id, h) ==
    [id |-> id, solids |-> << >>, orphans |-> << >>, heap |-> h,
     error |-> clear_error, next |-> 1, visited |-> << >>,
     booleans |-> << >>, undefined |-> FALSE]

\* new G4DisplacedSolid(name, top_solid, transform), of extent e.
displaced_top(name, top_solid, e, st) ==
    [st EXCEPT
       !.orphans = Append(@, top_solid),
       !.heap = New(@, Object(st.id, "DisplacedSolid", name, st.next)),
       !.next = @ + 1,
       !.solids = [p \in DOMAIN @ \cup {name} |->
                     IF p = name
                     THEN Solid("DisplacedSolid", name, st.next,
                                e.lo, e.hi)
                     ELSE @[p]]]

\* The optional displacement of the top solid.
displace_top(volume, top_solid, st) ==
    IF is_translated(volume) \/ is_rotated(volume)
    THEN displaced_top(volume.name, top_solid,
             CalculateExtent(top_solid, local_transform(volume)),
             [st EXCEPT
                !.heap = new_rotation(@, st.id, volume, volume.name)])
    ELSE st

\* The failure of Solid Assembly: the solids of the table are deleted.
solids_failure(id, instances, st) ==
    [this |-> GeometryData(id, NullPlacement, << >>, << >>, 0, st.orphans,
                           TRUE),
     LAST_ID |-> id, INSTANCES |-> instances, error |-> st.error,
     heap |-> DeleteAll(st.heap, id, Values(st.solids)),
     assembly |-> st, residue |-> FALSE]

\* The failure of Volume Assembly: the solids left in the table and the
\* orphans are deleted.
volumes_failure(id, instances, st) ==
    [this |-> GeometryData(id, NullPlacement, << >>, << >>, 0, << >>, TRUE),
     LAST_ID |-> id, INSTANCES |-> instances, error |-> st.error,
     heap |-> DeleteAll(DeleteAll(st.heap, id, Values(st.solids)), id,
                        st.orphans),
     assembly |-> st, residue |-> FALSE]

\* The registration of the world volume and the mapping of the hierarchy.
register_world(id, world, maps, instances, st) ==
    [this |-> GeometryData(id, world, maps.elements, maps.mothers, 0,
                           st.orphans, TRUE),
     LAST_ID |-> id,
     INSTANCES |-> [r \in DOMAIN instances \cup {Node(id, world.name)} |->
                      IF r = Node(id, world.name) THEN id ELSE instances[r]],
     error |-> st.error,
     heap |-> New(st.heap, Object(id, "G4PVPlacement", world.name, 0)),
     assembly |-> st,
     \* assert(solids.empty())
     residue |-> DOMAIN st.solids # {}]

map_world(id, world, instances, st) ==
    register_world(id, world,
        map_volumes(id, world,
            [elements |-> (world.name :> Node(id, world.name)),
             mothers |-> (Node(id, world.name) :> NullNode)]),
        instances, st)

\* The constructor once Volume Assembly returned (built).
place_world(id, name, instances, built) ==
    IF built.logical = NullLogical
    THEN volumes_failure(id, instances, built.st)
    ELSE map_world(id, Placement(name, 0, Zero3, built.logical),
                   instances, built.st)

\* The constructor once Solid Assembly returned (top).
build_world(id, volume, instances, top) ==
    IF top.solid = NullSolid
    THEN solids_failure(id, instances, top.st)
    ELSE place_world(id, volume.name, instances,
             build_volumes(volume, "",
                           displace_top(volume, top.solid, top.st)))

\* A variant that counts a construction only from the second on.
next_id_late(last_id) == IF last_id = 0 THEN 1 ELSE last_id

\* this->id = ++GeometryData::LAST_ID
next_id(last_id) == last_id + 1

\* GeometryData::GeometryData.  The result holds the new object (this),
\* the globals it leaves and what the assembly went through.
NewGeometryData(volume, algorithm, last_id, instances, h) ==
    build_world(next_id(last_id), volume, instances,
        build_solids(volume, algorithm, "", Assembly(next_id(last_id), h)))

\* GeometryData::~GeometryData, followed by the release of the object.
DeleteGeometryData(this, instances, h) ==
    IF this.world # NullPlacement
    THEN [this |-> [this EXCEPT !.alive = FALSE, !.orphans = << >>,
                                !.elements = << >>],
          INSTANCES |-> Erase(instances, Node(this.id, this.world.name)),
          heap |-> DeleteAll(drop_world(h, this.id, this.world), this.id,
                             this.orphans)]
    ELSE [this |-> [this EXCEPT !.alive = FALSE],
          INSTANCES |-> instances, heap |-> h]

\* Variants of clone and drop that miscount the leases: a clone that sets
\* the count to one, a drop that frees at every call, a drop that frees one
\* lease too early.
clone_reset(this) == [this EXCEPT !.rc = 1]
drop_early(this, instances, h) ==
    DeleteGeometryData([this EXCEPT !.rc = 0], instances, h)
drop_hasty(this, instances, h) ==
    IF this.rc - 1 <= 1
    THEN DeleteGeometryData([this EXCEPT !.rc = 0], instances, h)
    ELSE [this |-> [this EXCEPT !.rc = @ - 1],
          INSTANCES |-> instances, heap |-> h]

\* GeometryData::clone
clone(this) == [this EXCEPT !.rc = @ + 1]

\* GeometryData::drop : the object, the registry and the heap it leaves.
drop(this, instances, h) ==
    IF this.rc - 1 = 0
    THEN DeleteGeometryData([this EXCEPT !.rc = 0], instances, h)
    ELSE [this |-> [this EXCEPT !.rc = @ - 1],
          INSTANCES |-> instances, heap |-> h]

\* GeometryData::get : INSTANCES[volume], which inserts a missing key.
get(instances, volume) ==
    [geometry |-> Subscript(instances, volume, 0)[volume],
     INSTANCES |-> Subscript(instances, volume, 0)]

(***************************************************************************)
(* Queries.                                                                *)
(***************************************************************************)
\* A variant of get_volume that records no error.
get_volume_quiet(path, elements, e) ==
    [volume |-> Subscript(elements, path, NullNode)[path],
     elements |-> Subscript(elements, path, NullNode),
     error |-> e]

get_volume(path, elements, e) ==
    [volume |-> Subscript(elements, path, NullNode)[path],
     elements |-> Subscript(elements, path, NullNode),
     error |-> IF Subscript(elements, path, NullNode)[path] = NullNode
               THEN set_error(e, ValueError("unknown volume", path, ""))
               ELSE e]

\* The placement a node pointer refers to, searched from a placement down.
RECURSIVE FindPlacement(_, _)
RECURSIVE FindAmong(_, _)
RECURSIVE FindNext(_, _, _)
FindPlacement(physical, name) ==
    IF physical.name = name THEN physical
    ELSE FindAmong(physical.logical.daughters, name)
FindNext(found, daughters, name) ==
    IF found # NullPlacement THEN found
    ELSE FindAmong(Tail(daughters), name)
FindAmong(daughters, name) ==
    IF Len(daughters) = 0 THEN NullPlacement
    ELSE FindNext(FindPlacement(Head(daughters), name), daughters, name)

\* The first loop of compute_transform: from current up to target.
RECURSIVE walk(_, _, _, _)
RECURSIVE walk_up(_, _, _, _)
\* current = mothers[current], mothers being what operator[] left.
walk_up(current, target, mothers, collected) ==
    IF mothers[current] = NullNode
    THEN [found |-> FALSE, volumes |-> collected, mothers |-> mothers]
    ELSE walk(mothers[current], target, mothers, collected)
walk(current, target, mothers, collected) ==
    IF current = target
    THEN [found |-> TRUE, volumes |-> collected, mothers |-> mothers]
    ELSE walk_up(current, target, Subscript(mothers, current, NullNode),
                 Append(collected, current))

\* G4AffineTransform(current->GetRotation(), current->GetTranslation())
placement_transform(current) ==
    Transform(current.rotation, current.translation)

\* A variant of the second loop that multiplies on the other side.
RECURSIVE compose(_, _, _)
compose_leaf_first(world, collected, transform) ==
    IF Len(collected) = 0 THEN transform
    ELSE compose(world, SubSeq(collected, 1, Len(collected) - 1),
                 Product(placement_transform(
                     FindPlacement(world, collected[Len(collected)].path)),
                     transform))

\* The second loop of compute_transform: from the back of the list.
compose(world, collected, transform) ==
    IF Len(collected) = 0 THEN transform
    ELSE compose(world, SubSeq(collected, 1, Len(collected) - 1),
                 Product(transform, placement_transform(
                     FindPlacement(world, collected[Len(collected)].path))))

\* compute_transform once the mothers were walked up.
transform_along(geometry, volume, frame, target, walked) ==
    IF ~walked.found
    THEN [null |-> TRUE, transform |-> Identity,
          geometry |-> [geometry EXCEPT !.elements = target.elements,
                                        !.mothers = walked.mothers],
          error |-> set_error(target.error,
                        ValueError("does not contain", frame, volume.path))]
    ELSE [null |-> FALSE,
          transform |-> compose(geometry.world, walked.volumes, Identity),
          geometry |-> [geometry EXCEPT !.elements = target.elements,
                                        !.mothers = walked.mothers],
          error |-> target.error]

\* compute_transform once the frame was looked up (target).
transform_to(geometry, volume, frame, target) ==
    IF any_error(target.error)
    THEN [null |-> TRUE, transform |-> Identity,
          geometry |-> [geometry EXCEPT !.elements = target.elements],
          error |-> target.error]
    ELSE transform_along(geometry, volume, frame, target,
             walk(volume, target.volume, geometry.mothers, << >>))

\* compute_transform once the name of the frame is known.
transform_in(geometry, volume, frame, e) ==
    IF volume.path = frame
    THEN [null |-> FALSE, transform |-> Identity, geometry |-> geometry,
          error |-> e]
    ELSE transform_to(geometry, volume, frame,
                      get_volume(frame, geometry.elements, e))

\* VolumeBorrow::compute_transform : null is [null |-> TRUE].
compute_transform(geometry, volume, frame_, e) ==
    transform_in(geometry, volume,
        IF frame_ = "" THEN geometry.world.name ELSE frame_, e)

ZeroBox == [lo |-> Zero3, hi |-> Zero3]
VDiv(a, k) == Vec3(a[1] \div k, a[2] \div k, a[3] \div k)

\* The extent of the solid through the transform, in cm.
box_extent(extent) ==
    [lo |-> VDiv(extent.lo, cm), hi |-> VDiv(extent.hi, cm)]

\* compute_box once compute_transform returned (r).
transformed_box(solid, r) ==
    [box |-> IF any_error(r.error) THEN ZeroBox
             ELSE IF IsTranslated(r.transform) \/ IsRotated(r.transform)
             THEN box_extent(CalculateExtent(solid, r.transform))
             ELSE box_extent(GetExtent(solid)),
     geometry |-> r.geometry, error |-> r.error]

\* VolumeBorrow::compute_box
compute_box(geometry, volume, frame, e) ==
    transformed_box(FindPlacement(geometry.world, volume.path).logical.solid,
                    compute_transform(geometry, volume, frame, e))

\* compute_origin once compute_transform returned (r).
transformed_origin(r) ==
    [origin |-> IF any_error(r.error) THEN Zero3
                ELSE VDiv(TransformPoint(r.transform, Zero3), cm),
     geometry |-> r.geometry, error |-> r.error]

\* VolumeBorrow::compute_origin
compute_origin(geometry, volume, frame, e) ==
    transformed_origin(compute_transform(geometry, volume, frame, e))

\* The names of the daughters of a logical volume.
daughter_names(logical) ==
    [i \in 1..Len(logical.daughters) |-> logical.daughters[i].name]

\* VolumeBorrow::describe : the mother's name and the daughters' names.
describe(geometry, volume) ==
    [mother |-> Subscript(geometry.mothers, volume, NullNode)[volume].path,
     daughters |-> daughter_names(
                       FindPlacement(geometry.world, volume.path).logical),
     geometry |-> [geometry EXCEPT
                     !.mothers = Subscript(@, volume, NullNode)]]

(***************************************************************************)
(* Containment.                                                            *)
(***************************************************************************)
\* G4VSolid::Inside for a solid that fills its extent, as a Box does: the
\* point is kInside, kSurface or kOutside.
Inside(solid, p) ==
    IF \E i \in 1..3 : p[i] < solid.lo[i] \/ p[i] > solid.hi[i]
    THEN "kOutside"
    ELSE IF \E i \in 1..3 : p[i] = solid.lo[i] \/ p[i] = solid.hi[i]
    THEN "kSurface"
    ELSE "kInside"

\* The point in native units, brought into the frame of the volume.
local_point(point_, transform) ==
    IF IsTranslated(transform) \/ IsRotated(transform)
    THEN InverseTransformPoint(transform, VScale(cm, point_))
    ELSE VScale(cm, point_)

\* A variant of daughter_point that leaves the point in the mother's frame.
daughter_point_unmoved(daughter, point) == point

\* The point in the frame of a daughter.
daughter_point(daughter, point) ==
    IF IsTranslated(placement_transform(daughter))
          \/ IsRotated(placement_transform(daughter))
    THEN InverseTransformPoint(placement_transform(daughter), point)
    ELSE point

\* The loop of inside over the daughters, in their order.
RECURSIVE inside_daughters(_, _)
inside_next(si, daughters, point) ==
    CASE si = "kSurface" -> "kSurface"
      [] si = "kInside" -> "kOutside"
      [] OTHER -> inside_daughters(Tail(daughters), point)
inside_daughters(daughters, point) ==
    IF Len(daughters) = 0 THEN "kInside"
    ELSE inside_next(Inside(Head(daughters).logical.solid,
                            daughter_point(Head(daughters), point)),
                     daughters, point)

\* A variant of inside_local that tests the daughters whatever the flag.
inside_excluding(logical, point, own, include_daughters) ==
    IF own # "kInside" THEN own
    ELSE inside_daughters(logical.daughters, point)

\* inside once the point is local and the solid of the volume has answered.
inside_local(logical, point, own, include_daughters) ==
    IF include_daughters \/ own # "kInside" THEN own
    ELSE inside_daughters(logical.daughters, point)

\* VolumeBorrow::inside
inside(geometry, volume, point_, transform, include_daughters) ==
    inside_local(FindPlacement(geometry.world, volume.path).logical,
                 local_point(point_, transform),
                 Inside(FindPlacement(geometry.world, volume.path)
                            .logical.solid,
                        local_point(point_, transform)),
                 include_daughters)

(***************************************************************************)
(* Roles.  The Roles of a sampler are a number, 0 when all are zero.       *)
(***************************************************************************)
\* logical->SetSensitiveDetector(sensitive) on the logical volume of the
\* placement named path, found from a placement down.
RECURSIVE SetSensitiveDetector(_, _, _)
RECURSIVE SetAmong(_, _, _)
SetSensitiveDetector(physical, path, sensitive) ==
    IF physical.name = path
    THEN [physical EXCEPT !.logical.sensitive = sensitive]
    ELSE [physical EXCEPT
            !.logical.daughters = SetAmong(@, path, sensitive)]
SetAmong(daughters, path, sensitive) ==
    [i \in 1..Len(daughters) |->
        SetSensitiveDetector(daughters[i], path, sensitive)]

\* A variant of clear_roles that frees the sampler and leaves it attached.
clear_roles_attached(geometry, h, volume) ==
    [geometry |-> geometry,
     heap |-> Delete(h, DetectorObject(geometry.id,
                  FindPlacement(geometry.world, volume.path).logical))]

\* VolumeBorrow::clear_roles
clear_roles(geometry, h, volume) ==
    IF FindPlacement(geometry.world, volume.path).logical.sensitive.present
    THEN [geometry |-> [geometry EXCEPT !.world =
                          SetSensitiveDetector(@, volume.path, NullDetector)],
          heap |-> Delete(h, DetectorObject(geometry.id,
                       FindPlacement(geometry.world, volume.path).logical))]
    ELSE [geometry |-> geometry, heap |-> h]

\* A variant of get_roles that reads the roles of the world.
get_roles_world(geometry, volume) ==
    IF geometry.world.logical.sensitive.present
    THEN geometry.world.logical.sensitive.roles
    ELSE 0

\* VolumeBorrow::get_roles
get_roles(geometry, volume) ==
    IF FindPlacement(geometry.world, volume.path).logical.sensitive.present
    THEN FindPlacement(geometry.world, volume.path).logical.sensitive.roles
    ELSE 0

\* VolumeBorrow::set_roles
set_roles(geometry, h, volume, roles) ==
    IF FindPlacement(geometry.world, volume.path).logical.sensitive.present
    THEN [geometry |-> [geometry EXCEPT !.world =
                          SetSensitiveDetector(@, volume.path,
                              Detector(roles,
                                  FindPlacement(geometry.world, volume.path)
                                      .logical.sensitive.n))],
          heap |-> h]
    ELSE [geometry |-> [geometry EXCEPT !.world =
                          SetSensitiveDetector(@, volume.path,
                                               Detector(roles, 0))],
          heap |-> New(h, Object(geometry.id, "SamplerImpl", volume.path,
                                 0))]

(***************************************************************************)
(* The Geant4 and Goupil interfaces.                                       *)
(***************************************************************************)
RECURSIVE check_overlaps(_, _, _)
RECURSIVE check_daughters(_, _, _)
RECURSIVE check_next(_, _, _)
RECURSIVE check_below(_, _, _)

check_below(volume, overlapping, acc) ==
    IF any_error(acc.error) THEN acc
    ELSE check_daughters(volume.logical.daughters, overlapping, acc)

\* overlapping: the volumes whose CheckOverlaps records an error;
\* acc = [error, checked].
check_overlaps(volume, overlapping, acc) ==
    check_below(volume, overlapping,
        [error |-> IF volume.name \in overlapping
                   THEN set_error(acc.error,
                            ValueError("overlap", volume.name, ""))
                   ELSE acc.error,
         checked |-> Append(acc.checked, volume.name)])

\* A variant of the loop that goes on after an error.
check_next_on(daughters, overlapping, acc) ==
    check_daughters(Tail(daughters), overlapping, acc)

\* if (any_error()) return, in the loop over the daughters.
check_next(daughters, overlapping, acc) ==
    IF any_error(acc.error) THEN acc
    ELSE check_daughters(Tail(daughters), overlapping, acc)

check_daughters(daughters, overlapping, acc) ==
    IF Len(daughters) = 0 THEN acc
    ELSE check_next(daughters, overlapping,
                    check_overlaps(Head(daughters), overlapping, acc))

MIN_VOXEL_VOLUMES_LEVEL_1 == 2

RECURSIVE optimise(_, _, _)
RECURSIVE optimise_daughters(_, _, _, _)
RECURSIVE optimise_next(_, _, _, _)

\* A variant of the condition that does not look for a header.
to_voxelise_again(volume) ==
    Len(volume.daughters) >= MIN_VOXEL_VOLUMES_LEVEL_1

\* The voxel header of a logical volume is created when it has none and
\* MIN_VOXEL_VOLUMES_LEVEL_1 daughters at least.
to_voxelise(volume) ==
    ~volume.voxel /\ Len(volume.daughters) >= MIN_VOXEL_VOLUMES_LEVEL_1

\* optimise once the daughters are done (r).
optimised(physical, r) ==
    [physical |-> [physical EXCEPT
                     !.logical = [@ EXCEPT
                         !.voxel = @ \/ to_voxelise(physical.logical),
                         !.daughters = r.daughters]],
     heap |-> r.heap]

\* optimise : the placement with its new voxel headers, and the heap.
\* A G4LogicalVolume is to optimise by default; a G4PVPlacement is not
\* replicated.
optimise(h, id, physical) ==
    optimised(physical,
        optimise_daughters(
            IF to_voxelise(physical.logical)
            THEN New(h, Object(id, "G4SmartVoxelHeader",
                               physical.logical.path, 0))
            ELSE h,
            id, physical.logical.daughters, << >>))

optimise_next(id, daughters, done, r) ==
    optimise_daughters(r.heap, id, Tail(daughters), Append(done, r.physical))

optimise_daughters(h, id, daughters, done) ==
    IF Len(daughters) = 0 THEN [daughters |-> done, heap |-> h]
    ELSE optimise_next(id, daughters, done, optimise(h, id, Head(daughters)))

(***************************************************************************)
(* The inputs: volume descriptions, tessellation algorithms, query paths.  *)
(***************************************************************************)
Leaf(name, shape, material, position, rotation, roles) ==
    Volume(name, shape, material, position, rotation, roles, << >>, << >>,
           << >>)

\* The paths of a volume description, one per node.
RECURSIVE Paths(_, _)
RECURSIVE PathsOf(_, _)
Paths(volume, path) ==
    {Pathname(path, volume.name)}
        \cup PathsOf(volume.volumes, Pathname(path, volume.name))
PathsOf(vs, path) ==
    IF Len(vs) = 0 THEN {}
    ELSE Paths(Head(vs), path) \cup PathsOf(Tail(vs), path)

\* A world with two children, one of them with a child of its own.
Nested ==
    Volume("W", BoxShape(20, 20, 20), "G4_AIR", Zero3, 0, 0, << >>, << >>,
      << Volume("A", BoxShape(8, 8, 8), "G4_WATER", Vec3(3, 0, 0), 0, 1,
                << >>, << >>,
           << Leaf("C", BoxShape(2, 2, 2), "G4_AIR", Vec3(1, 0, 0), 1, 0) >>),
         Leaf("B", BoxShape(2, 2, 2), "G4_WATER", Vec3(-5, 0, 0), 0, 0) >>)

\* A displaced envelope around two boxes, the first patched by the second.
Patched ==
    Volume("W", EnvelopeShape(0), "G4_AIR", Vec3(0, 0, 1), 0, 0, << >>,
           << << "A", "B" >> >>,
      << Leaf("A", BoxShape(2, 2, 2), "G4_WATER", Zero3, 0, 0),
         Leaf("B", BoxShape(2, 2, 2), "G4_WATER", Vec3(5, 0, 0), 0, 2) >>)

\* A tessellated world with a rejected facet, its children patched.
BadShape ==
    Volume("W", TessellatedShape(FALSE), "G4_AIR", Zero3, 0, 0, << >>,
           << << "A", "B" >> >>,
      << Leaf("A", BoxShape(4, 4, 4), "G4_WATER", Zero3, 0, 0),
         Leaf("B", BoxShape(2, 2, 2), "G4_WATER", Zero3, 0, 0) >>)

\* An undefined material on the last child.
BadMaterial ==
    Volume("W", BoxShape(20, 20, 20), "G4_AIR", Zero3, 0, 0, << >>, << >>,
      << Volume("A", BoxShape(8, 8, 8), "G4_WATER", Vec3(3, 0, 0), 0, 1,
                << "B" >>, << >>,
           << Leaf("C", BoxShape(2, 2, 2), "G4_AIR", Zero3, 0, 0) >>),
         Leaf("B", BoxShape(2, 2, 2), "Unobtainium", Vec3(4, 0, 0), 0, 0) >>)

\* Two siblings under one name.
Twins ==
    Volume("W", BoxShape(20, 20, 20), "G4_AIR", Zero3, 0, 0, << >>, << >>,
      << Leaf("A", BoxShape(2, 2, 2), "G4_WATER", Vec3(3, 0, 0), 0, 0),
         Leaf("A", BoxShape(4, 4, 4), "G4_WATER", Vec3(-3, 0, 0), 0, 0) >>)

\* A world alone, rotated and displaced.
Alone == Leaf("W", TessellatedShape(TRUE), "G4_AIR", Vec3(1, 2, 0), 1, 3)

\* Four levels, every placement below the world rotated and translated.
Deep ==
    Volume("W", BoxShape(20, 20, 20), "G4_AIR", Zero3, 0, 0, << >>, << >>,
      << Volume("A", BoxShape(8, 8, 8), "G4_WATER", Vec3(3, 0, 0), 1, 1,
                << >>, << >>,
           << Volume("C", BoxShape(4, 4, 4), "G4_AIR", Vec3(1, 0, 0), 1, 0,
                     << >>, << >>,
                << Leaf("D", BoxShape(2, 2, 2), "G4_WATER", Vec3(0, 1, 0),
                        2, 0) >>) >>) >>)

\* A 10 cm box around a 2 cm box at (3, 0, 0) cm.
Scenario ==
    Volume("W", BoxShape(10, 10, 10), "G4_AIR", Zero3, 0, 0, << >>, << >>,
      << Leaf("A", BoxShape(2, 2, 2), "G4_WATER", Vec3(3, 0, 0), 0, 0) >>)

\* A 10 cm box around two daughters: a 2 x 4 x 2 cm box turned by a quarter
\* at (3, 0, 0) cm and a sensitive 2 cm box at the origin.
Turned ==
    Volume("W", BoxShape(10, 10, 10), "G4_AIR", Zero3, 0, 0, << >>, << >>,
      << Leaf("A", BoxShape(2, 4, 2), "G4_WATER", Vec3(3, 0, 0), 1, 0),
         Leaf("B", BoxShape(2, 2, 2), "G4_WATER", Zero3, 0, 1) >>)

\* The points asked to inside, in cm, and the frames they are given in.
Points ==
    {Vec3(3, 0, 0), Vec3(2, 0, 0), Vec3(3, 1, 0), Vec3(1, 0, 0),
     Vec3(0, 0, 0), Vec3(5, 0, 0), Vec3(6, 0, 0)}
PointFrames == {Identity, Transform(1, Vec3(10, 0, 0))}

\* A displaced world of tessellations with sensitive volumes, a rotated
\* child, an overlap pair and a subtraction, every node valid.
Rich ==
    Volume("W", TessellatedShape(TRUE), "G4_AIR", Vec3(0, 0, 1), 0, 1,
           << >>, << << "B", "E" >> >>,
      << Volume("A", TessellatedShape(TRUE), "G4_WATER", Vec3(3, 0, 0), 1, 1,
                << "B" >>, << >>,
           << Leaf("C", TessellatedShape(TRUE), "G4_AIR", Zero3, 0, 2) >>),
         Leaf("B", TessellatedShape(TRUE), "G4_WATER", Vec3(4, 0, 0), 0, 0),
         Leaf("E", TessellatedShape(TRUE), "G4_AIR", Vec3(-4, 0, 0), 0,
              1) >>)

\* The description with an undefined material at the node named at.
RECURSIVE Spoiled(_, _, _)
Spoiled(volume, path, at) ==
    [volume EXCEPT
       !.material = IF Pathname(path, volume.name) = at THEN "Unobtainium"
                    ELSE @,
       !.volumes = [i \in 1..Len(@) |->
                      Spoiled(@[i], Pathname(path, volume.name), at)]]

\* The description with a rejected facet at the node named at.
RECURSIVE Cracked(_, _, _)
Cracked(volume, path, at) ==
    [volume EXCEPT
       !.shape = IF Pathname(path, volume.name) = at
                 THEN TessellatedShape(FALSE) ELSE @,
       !.volumes = [i \in 1..Len(@) |->
                      Cracked(@[i], Pathname(path, volume.name), at)]]

\* The calls of create_geometry: a description and a TSTAlgorithm.
Inputs ==
    {<< Nested, "Bvh" >>, << Patched, "Geant4" >>, << BadShape, "Bvh" >>,
     << BadShape, "Geant4" >>, << BadMaterial, "Geant4" >>,
     << Twins, "Bvh" >>, << Alone, "Geant4" >>, << Rich, "Geant4" >>}
        \cup {<< Spoiled(Rich, "", at), "Bvh" >> : at \in Paths(Rich, "")}
        \cup {<< Cracked(Rich, "", at), "Geant4" >> : at \in Paths(Rich, "")}
        \cup {<< Cracked(Spoiled(Rich, "", "W.B"), "", "W.E"), "Geant4" >>,
              << Spoiled(Spoiled(Rich, "", "W.A.C"), "", "W.E"), "Bvh" >>,
              << Cracked(Cracked(Rich, "", "W.A"), "", "W.B"), "Geant4" >>}

\* The names given to the queries; the empty frame stands for the world.
Unknown == "W.Z"
QueryPaths == Paths(Nested, "") \cup {Unknown}
Frames == QueryPaths \cup {""}

(***************************************************************************)
(* Bags of handles.                                                        *)
(***************************************************************************)
BagAdd(bag, x) ==
    IF x \in DOMAIN bag THEN [bag EXCEPT ![x] = @ + 1]
    ELSE [y \in DOMAIN bag \cup {x} |-> IF y = x THEN 1 ELSE bag[y]]
BagRemove(bag, x) ==
    IF bag[x] = 1 THEN Erase(bag, x) ELSE [bag EXCEPT ![x] = @ - 1]
RECURSIVE BagSize(_)
BagSize(bag) ==
    IF DOMAIN bag = {} THEN 0
    ELSE bag[CHOOSE x \in DOMAIN bag : TRUE]
         + BagSize(Erase(bag, CHOOSE x \in DOMAIN bag : TRUE))

VolumeBorrow(g, v) == [geometry |-> g, volume |-> v]

\* The last operation and whether it returned a non-null, error-free result.
Last(op, ok) == [op |-> op, ok |-> ok]

(***************************************************************************)
(* The operations.                                                         *)
(***************************************************************************)
\* No run_simulation is in progress.
Idle == [pc |-> "idle", n |-> 0, i |-> 0, beams |-> << >>, switches |-> 0,
         engine |-> "null"]

\* The process before its first call, with the random engine the host chose.
Started(engine) ==
    /\ LAST_ID = 0
    /\ INSTANCES = << >>
    /\ data = << >>
    /\ GOUPIL_GEOMETRY = 0
    /\ error = NoError
    /\ geometries = {}
    /\ volumes = << >>
    /\ goupil = << >>
    /\ heap = EmptyHeap
    /\ crashed = FALSE
    /\ specs = << >>
    /\ last = Last("none", FALSE)
    /\ RUN_AGENT = 0
    /\ theEngine = engine
    /\ altEngine = "null"
    /\ manager = FALSE
    /\ run = Idle
    /\ MATERIALS = << >>

Init == Started("MixMaxRng")

\* Replace the container id of data by what an operation left of it.
Store(this) == [data EXCEPT ![this.id] = this]

\* The end of create_geometry, r being what the constructor left: delete
\* data and return nullptr, or return the GeometryBorrow of data.
return_geometry(volume, algorithm, r) ==
    /\ UNCHANGED << simulation, MATERIALS >>
    /\ LAST_ID' = r.LAST_ID
    /\ error' = r.error
    /\ specs' = [i \in DOMAIN specs \cup {r.this.id} |->
                   IF i = r.this.id
                   THEN [volume |-> volume, algorithm |-> algorithm,
                         assembly |-> [r.assembly EXCEPT !.heap = EmptyHeap]]
                   ELSE specs[i]]
    /\ crashed' = (r.residue \/ r.assembly.undefined)
    /\ IF any_error(r.error)
       THEN /\ INSTANCES' =
                 DeleteGeometryData(r.this, r.INSTANCES, r.heap).INSTANCES
            /\ heap' = DeleteGeometryData(r.this, r.INSTANCES, r.heap).heap
            /\ UNCHANGED << data, geometries >>
            /\ last' = Last("create_geometry", FALSE)
       ELSE /\ INSTANCES' = r.INSTANCES
            /\ heap' = r.heap
            /\ data' = [i \in DOMAIN data \cup {r.this.id} |->
                          IF i = r.this.id THEN clone(r.this) ELSE data[i]]
            /\ geometries' = geometries \cup {r.this.id}
            /\ last' = Last("create_geometry", TRUE)

\* create_geometry : new GeometryData, then delete it or borrow it.
create_geometry(volume, algorithm) ==
    /\ ~crashed
    /\ return_geometry(volume, algorithm,
           NewGeometryData(volume, algorithm, LAST_ID, INSTANCES, heap))
    /\ UNCHANGED << GOUPIL_GEOMETRY, volumes, goupil >>

\* GeometryBorrow::~GeometryBorrow
drop_geometry(g) ==
    /\ UNCHANGED << simulation, MATERIALS >>
    /\ ~crashed
    /\ g \in geometries
    /\ LET r == drop(data[g], INSTANCES, heap)
       IN  /\ data' = Store(r.this)
           /\ INSTANCES' = r.INSTANCES
           /\ heap' = r.heap
    /\ geometries' = geometries \ {g}
    /\ last' = Last("drop_geometry", TRUE)
    /\ UNCHANGED << LAST_ID, GOUPIL_GEOMETRY, error, volumes, goupil,
                    crashed, specs >>

\* GeometryBorrow::borrow_volume, with VolumeBorrow::VolumeBorrow
borrow_volume(g, name) ==
    /\ UNCHANGED << simulation, MATERIALS >>
    /\ ~crashed
    /\ g \in geometries
    /\ LET r == get_volume(name, data[g].elements, error)
           this == [data[g] EXCEPT !.elements = r.elements]
       IN  /\ error' = r.error
           /\ IF r.volume = NullNode
              THEN /\ data' = Store(this)
                   /\ UNCHANGED volumes
                   /\ last' = Last("borrow_volume", FALSE)
              ELSE /\ data' = Store(clone(this))
                   /\ volumes' = BagAdd(volumes, VolumeBorrow(g, r.volume))
                   /\ last' = Last("borrow_volume", TRUE)
    /\ UNCHANGED << LAST_ID, INSTANCES, GOUPIL_GEOMETRY, geometries, goupil,
                    heap, crashed, specs >>

\* VolumeBorrow::~VolumeBorrow
drop_volume(b) ==
    /\ UNCHANGED << simulation, MATERIALS >>
    /\ ~crashed
    /\ b \in DOMAIN volumes
    /\ LET r == drop(data[b.geometry], INSTANCES, heap)
       IN  /\ data' = Store(r.this)
           /\ INSTANCES' = r.INSTANCES
           /\ heap' = r.heap
    /\ volumes' = BagRemove(volumes, b)
    /\ last' = Last("drop_volume", TRUE)
    /\ UNCHANGED << LAST_ID, GOUPIL_GEOMETRY, error, geometries, goupil,
                    crashed, specs >>

\* VolumeBorrow::compute_transform, called by the primary caller.
ComputeTransform(b, frame) ==
    /\ UNCHANGED << simulation, MATERIALS >>
    /\ ~crashed
    /\ b \in DOMAIN volumes
    /\ LET r == compute_transform(data[b.geometry], b.volume, frame, error)
       IN  /\ data' = Store(r.geometry)
           /\ error' = r.error
           /\ last' = Last("compute_transform", ~r.null)
    /\ UNCHANGED << LAST_ID, INSTANCES, GOUPIL_GEOMETRY, geometries, volumes,
                    goupil, heap, crashed, specs >>

ComputeBox(b, frame) ==
    /\ UNCHANGED << simulation, MATERIALS >>
    /\ ~crashed
    /\ b \in DOMAIN volumes
    /\ LET r == compute_box(data[b.geometry], b.volume, frame, error)
       IN  /\ data' = Store(r.geometry)
           /\ error' = r.error
           /\ last' = Last("compute_box", ~any_error(r.error))
    /\ UNCHANGED << LAST_ID, INSTANCES, GOUPIL_GEOMETRY, geometries, volumes,
                    goupil, heap, crashed, specs >>

ComputeOrigin(b, frame) ==
    /\ UNCHANGED << simulation, MATERIALS >>
    /\ ~crashed
    /\ b \in DOMAIN volumes
    /\ LET r == compute_origin(data[b.geometry], b.volume, frame, error)
       IN  /\ data' = Store(r.geometry)
           /\ error' = r.error
           /\ last' = Last("compute_origin", ~any_error(r.error))
    /\ UNCHANGED << LAST_ID, INSTANCES, GOUPIL_GEOMETRY, geometries, volumes,
                    goupil, heap, crashed, specs >>

Describe(b) ==
    /\ UNCHANGED << simulation, MATERIALS >>
    /\ ~crashed
    /\ b \in DOMAIN volumes
    /\ LET r == describe(data[b.geometry], b.volume)
       IN  /\ data' = Store(r.geometry)
           /\ last' = Last("describe", TRUE)
    /\ UNCHANGED << LAST_ID, INSTANCES, GOUPIL_GEOMETRY, error, geometries,
                    volumes, goupil, heap, crashed, specs >>

\* VolumeBorrow::inside, the call and what it returned.
AskInside(b, point, transform, include_daughters) ==
    /\ UNCHANGED << simulation, MATERIALS >>
    /\ ~crashed
    /\ b \in DOMAIN volumes
    /\ last' = [op |-> "inside", ok |-> TRUE, volume |-> b.volume,
                point |-> point, transform |-> transform,
                include_daughters |-> include_daughters,
                result |-> inside(data[b.geometry], b.volume, point,
                                  transform, include_daughters)]
    /\ UNCHANGED << LAST_ID, INSTANCES, data, GOUPIL_GEOMETRY, error,
                    geometries, volumes, goupil, heap, crashed, specs >>

\* VolumeBorrow::set_roles, clear_roles and get_roles, the calls.
SetRoles(b, roles) ==
    /\ UNCHANGED << simulation, MATERIALS >>
    /\ ~crashed
    /\ b \in DOMAIN volumes
    /\ data' = Store(set_roles(data[b.geometry], heap, b.volume,
                               roles).geometry)
    /\ heap' = set_roles(data[b.geometry], heap, b.volume, roles).heap
    /\ last' = [op |-> "set_roles", ok |-> TRUE, volume |-> b.volume,
                roles |-> roles]
    /\ UNCHANGED << LAST_ID, INSTANCES, GOUPIL_GEOMETRY, error, geometries,
                    volumes, goupil, crashed, specs >>

ClearRoles(b) ==
    /\ UNCHANGED << simulation, MATERIALS >>
    /\ ~crashed
    /\ b \in DOMAIN volumes
    /\ data' = Store(clear_roles(data[b.geometry], heap, b.volume).geometry)
    /\ heap' = clear_roles(data[b.geometry], heap, b.volume).heap
    /\ last' = [op |-> "clear_roles", ok |-> TRUE, volume |-> b.volume]
    /\ UNCHANGED << LAST_ID, INSTANCES, GOUPIL_GEOMETRY, error, geometries,
                    volumes, goupil, crashed, specs >>

GetRoles(b) ==
    /\ UNCHANGED << simulation, MATERIALS >>
    /\ ~crashed
    /\ b \in DOMAIN volumes
    /\ last' = [op |-> "get_roles", ok |-> TRUE, volume |-> b.volume,
                result |-> get_roles(data[b.geometry], b.volume)]
    /\ UNCHANGED << LAST_ID, INSTANCES, data, GOUPIL_GEOMETRY, error,
                    geometries, volumes, goupil, heap, crashed, specs >>

\* GeometryBorrow::id
GeometryBorrow_id(g) == data[g].id

\* The call of id() on a borrow and what it returned.
AskId(g) ==
    /\ UNCHANGED << simulation, MATERIALS >>
    /\ ~crashed
    /\ g \in geometries
    /\ last' = [op |-> "id", ok |-> TRUE, geometry |-> g,
                result |-> GeometryBorrow_id(g)]
    /\ UNCHANGED << LAST_ID, INSTANCES, data, GOUPIL_GEOMETRY, error,
                    geometries, volumes, goupil, heap, crashed, specs >>

\* GeometryBorrow::check
check(g, overlapping) ==
    /\ UNCHANGED << simulation, MATERIALS >>
    /\ ~crashed
    /\ g \in geometries
    /\ LET r == check_overlaps(data[g].world, overlapping,
                               [error |-> clear_error, checked |-> << >>])
       IN  /\ error' = r.error
           /\ last' = Last("check", ~any_error(r.error))
    /\ UNCHANGED << LAST_ID, INSTANCES, data, GOUPIL_GEOMETRY, geometries,
                    volumes, goupil, heap, crashed, specs >>

\* GeometryBorrow::dump : the file is outside the model.
dump(g) ==
    /\ UNCHANGED << simulation, MATERIALS >>
    /\ ~crashed
    /\ g \in geometries
    /\ error' = clear_error
    /\ last' = Last("dump", TRUE)
    /\ UNCHANGED << LAST_ID, INSTANCES, data, GOUPIL_GEOMETRY, geometries,
                    volumes, goupil, heap, crashed, specs >>

\* GeometryBorrow::set_goupil
set_goupil(g) ==
    /\ UNCHANGED << simulation, MATERIALS >>
    /\ ~crashed
    /\ g \in geometries
    /\ GOUPIL_GEOMETRY' = g
    /\ last' = Last("set_goupil", TRUE)
    /\ UNCHANGED << LAST_ID, INSTANCES, data, error, geometries, volumes,
                    goupil, heap, crashed, specs >>

\* The process stops on a null or dangling pointer.
Crash(op) ==
    /\ crashed' = TRUE
    /\ last' = Last(op, FALSE)

\* G4Goupil::NewGeometry.  GOUPIL_GEOMETRY holds no lease: when it is null
\* the call stops the process; when the container it names was deleted, the
\* call either stops the process or reads the freed object, counts a lease
\* in it and returns its former root.
NewGeometry ==
    /\ UNCHANGED << simulation, MATERIALS >>
    /\ ~crashed
    /\ IF GOUPIL_GEOMETRY = 0
       THEN /\ Crash("NewGeometry")
            /\ UNCHANGED << data, goupil, heap >>
       ELSE LET geometry == clone(data[GOUPIL_GEOMETRY])
                root == Node(geometry.id, geometry.world.name)
                r == optimise(heap, geometry.id, geometry.world)
            IN  IF data[GOUPIL_GEOMETRY].alive
                THEN /\ data' = Store([geometry EXCEPT !.world = r.physical])
                     /\ heap' = r.heap
                     /\ goupil' = BagAdd(goupil, root)
                     /\ last' = Last("NewGeometry", TRUE)
                     /\ UNCHANGED crashed
                ELSE \/ /\ Crash("NewGeometry")
                        /\ UNCHANGED << data, goupil, heap >>
                     \/ /\ data' = Store(geometry)
                        /\ goupil' = BagAdd(goupil, root)
                        /\ last' = Last("NewGeometry", FALSE)
                        /\ UNCHANGED << heap, crashed >>
    /\ UNCHANGED << LAST_ID, INSTANCES, GOUPIL_GEOMETRY, error, geometries,
                    volumes, specs >>

\* G4Goupil::DropGeometry, called with a root NewGeometry returned.
DropGeometry(volume) ==
    /\ UNCHANGED << simulation, MATERIALS >>
    /\ ~crashed
    /\ volume \in DOMAIN goupil
    /\ goupil' = BagRemove(goupil, volume)
    /\ LET found == get(INSTANCES, volume)
           r == drop(data[found.geometry], found.INSTANCES, heap)
       IN  IF found.geometry = 0
           THEN /\ INSTANCES' = found.INSTANCES
                /\ Crash("DropGeometry")
                /\ UNCHANGED << data, heap >>
           ELSE /\ data' = Store(r.this)
                /\ INSTANCES' = r.INSTANCES
                /\ heap' = r.heap
                /\ last' = Last("DropGeometry", TRUE)
                /\ UNCHANGED crashed
    /\ UNCHANGED << LAST_ID, GOUPIL_GEOMETRY, error, geometries, volumes,
                    specs >>

(***************************************************************************)
(* The simulation.  run_simulation installs the agent and the random       *)
(* engine of the caller, hands the events to G4RunManager::BeamOn in       *)
(* bunches, during which the callbacks of the run read RUN_AGENT and may   *)
(* record an error, and restores the engine before it returns.             *)
(***************************************************************************)
bunch_size == 100

\* RandomImpl::Switch, on the pair of the active and the saved engine.
Switch_install(engine, alt) ==
    [theEngine |-> "RandomImpl", altEngine |-> engine]

Switch(engine, alt) ==
    IF alt = "null"
    THEN [theEngine |-> "RandomImpl", altEngine |-> engine]
    ELSE [theEngine |-> alt, altEngine |-> "null"]

\* The number of events of the bunch i of a run of n events.
bunch(n, i) ==
    IF i < n \div bunch_size THEN bunch_size ELSE n % bunch_size

\* A variant that calls BeamOn whatever the size.
to_beam_always(r) == TRUE

\* if (r > 0) manager->BeamOn(r)
to_beam(r) == r > 0

\* SourceImpl::GeneratePrimaries on a primary of unknown kind.
BadPid == ValueError("bad pid", "", "")

\* run_simulation, up to the loop over the bunches.
EnterRun(agent, n) ==
    /\ ~crashed
    /\ run.pc = "idle"
    /\ error' = clear_error
    /\ RUN_AGENT' = agent
    /\ manager' = TRUE
    /\ theEngine' = Switch(theEngine, altEngine).theEngine
    /\ altEngine' = Switch(theEngine, altEngine).altEngine
    /\ run' = [pc |-> "bunches", n |-> n, i |-> 0, beams |-> << >>,
               switches |-> 1, engine |-> theEngine]
    /\ UNCHANGED << LAST_ID, INSTANCES, data, GOUPIL_GEOMETRY, geometries,
                    volumes, goupil, heap, crashed, specs, last, MATERIALS >>

\* One turn of the loop: the bunch, in which an event may record an error,
\* and the test that leaves the loop.
BeamOn(failed) ==
    /\ ~crashed
    /\ run.pc = "bunches"
    /\ run.i <= run.n \div bunch_size
    /\ (failed => to_beam(bunch(run.n, run.i)))
    /\ error' = IF failed THEN set_error(error, BadPid) ELSE error
    /\ run' = [run EXCEPT
                 !.beams = IF to_beam(bunch(run.n, run.i))
                           THEN Append(@, bunch(run.n, run.i)) ELSE @,
                 !.i = @ + 1,
                 !.pc = IF any_error(error') \/ run.i + 1 > run.n \div bunch_size
                        THEN "restore" ELSE "bunches"]
    /\ UNCHANGED << LAST_ID, INSTANCES, data, GOUPIL_GEOMETRY, geometries,
                    volumes, goupil, heap, crashed, specs, last, RUN_AGENT,
                    theEngine, altEngine, manager, MATERIALS >>

\* run_simulation, from the end of the loop to its return.
LeaveRun ==
    /\ ~crashed
    /\ run.pc = "restore"
    /\ RUN_AGENT' = 0
    /\ theEngine' = Switch(theEngine, altEngine).theEngine
    /\ altEngine' = Switch(theEngine, altEngine).altEngine
    /\ run' = Idle
    /\ last' = [op |-> "run_simulation", ok |-> ~any_error(error),
                result |-> get_error(error), n |-> run.n,
                beams |-> run.beams, switches |-> run.switches + 1,
                engine |-> run.engine]
    /\ UNCHANGED << LAST_ID, INSTANCES, data, GOUPIL_GEOMETRY, error,
                    geometries, volumes, goupil, heap, crashed, specs,
                    manager, MATERIALS >>

(***************************************************************************)
(* The materials.  A mixture or a molecule is a name, the hash of its      *)
(* definition and the names of its components; MATERIALS keeps the         *)
(* G4Material made of each with its hash.                                  *)
(***************************************************************************)
Mixture(name, hash, components) ==
    [name |-> name, hash |-> hash, components |-> components]

NistElements == {"H", "O"}
\* get_element; no element is added to ELEMENTS by the calls of the model.
get_element(name) == name \in NistElements

HashedMaterial(material, hash) == [material |-> material, hash |-> hash]
\* get_material of materials.cc, which returns the material with its hash:
\* a material of the NIST manager with the hash 0x0, else the entry of
\* MATERIALS, else null.
get_hashed_material(materials, name) ==
    IF name \in NistMaterials THEN HashedMaterial(name, 0)
    ELSE IF name \in DOMAIN materials THEN materials[name]
    ELSE HashedMaterial("null", 0)

MaterialObject(name) == Object(0, "G4Material", name, 0)

\* The components of a mixture that are neither elements nor materials, and
\* those of a molecule that are no elements.
undefined_in_mixture(materials, components) ==
    {k \in DOMAIN components :
        /\ ~get_element(components[k])
        /\ get_hashed_material(materials, components[k]).material = "null"}
undefined_in_molecule(materials, components) ==
    {k \in DOMAIN components : ~get_element(components[k])}

FirstOfSet(ks) == CHOOSE k \in ks : \A j \in ks : k <= j

\* What add_mixture and add_molecule do alike, given the undefined
\* components: the state of the slot, of MATERIALS and of the heap.
add_material(e, materials, h, definition, undefined, what) ==
    IF get_hashed_material(materials, definition.name).material # "null"
    THEN [error |->
             IF get_hashed_material(materials, definition.name).hash
                   # definition.hash
             THEN set_error(e, ValueError("bad material (redefinition)",
                                          definition.name, ""))
             ELSE e,
          MATERIALS |-> materials, heap |-> h]
    ELSE IF undefined # {}
    THEN [error |-> set_error(clear_error,
                       ValueError(what, definition.name,
                           definition.components[FirstOfSet(undefined)])),
          MATERIALS |-> materials,
          heap |-> Delete(New(h, MaterialObject(definition.name)),
                          MaterialObject(definition.name))]
    ELSE [error |-> clear_error,
          MATERIALS |-> (definition.name :>
                            HashedMaterial(definition.name, definition.hash))
                        @@ materials,
          heap |-> New(h, MaterialObject(definition.name))]

add_mixture(e, materials, h, mixture) ==
    add_material(e, materials, h, mixture,
                 undefined_in_mixture(materials, mixture.components),
                 "bad component (undefined)")

add_molecule(e, materials, h, molecule) ==
    add_material(e, materials, h, molecule,
                 undefined_in_molecule(materials, molecule.components),
                 "bad component (undefined element)")

\* The calls, which return get_error().
Added(op, definition, r) ==
    /\ ~crashed
    /\ error' = r.error
    /\ MATERIALS' = r.MATERIALS
    /\ heap' = r.heap
    /\ last' = [op |-> op, ok |-> ~any_error(r.error),
                result |-> get_error(r.error), definition |-> definition]
    /\ UNCHANGED << LAST_ID, INSTANCES, data, GOUPIL_GEOMETRY, geometries,
                    volumes, goupil, crashed, specs, simulation >>

AddMixture(mixture) ==
    Added("add_mixture", mixture, add_mixture(error, MATERIALS, heap, mixture))

AddMolecule(molecule) ==
    Added("add_molecule", molecule,
          add_molecule(error, MATERIALS, heap, molecule))

(***************************************************************************)
(* The callers.  The primary caller builds containers and holds the        *)
(* GeometryBorrow and VolumeBorrow objects; the secondary consumer takes   *)
(* and releases its leases through G4Goupil.                               *)
(***************************************************************************)
Construction(inputs, maxGeometries) ==
    \E input \in inputs :
        /\ LAST_ID < maxGeometries
        /\ create_geometry(input[1], input[2])

Primary(maxBorrows, names) ==
    \/ \E g \in geometries : drop_geometry(g)
    \/ \E g \in geometries, name \in names :
         /\ BagSize(volumes) < maxBorrows
         /\ borrow_volume(g, name)
    \/ \E b \in DOMAIN volumes : drop_volume(b)

Secondary(maxGoupil) ==
    \/ \E g \in geometries : set_goupil(g)
    \/ BagSize(goupil) < maxGoupil /\ NewGeometry
    \/ \E volume \in DOMAIN goupil : DropGeometry(volume)

\* The queries of the primary caller.
Queries(frames) ==
    \/ \E b \in DOMAIN volumes, frame \in frames : ComputeTransform(b, frame)
    \/ \E b \in DOMAIN volumes, frame \in frames : ComputeBox(b, frame)
    \/ \E b \in DOMAIN volumes, frame \in frames : ComputeOrigin(b, frame)
    \/ \E b \in DOMAIN volumes : Describe(b)
    \/ \E g \in geometries :
         \E overlapping \in {o \in SUBSET DOMAIN data[g].elements :
                                 Cardinality(o) <= 2} :
            check(g, overlapping)
    \/ \E g \in geometries : dump(g)

\* The calls of the primary caller on one node.
RoleValues == {0, 1, 2}
Containment ==
    \E b \in DOMAIN volumes, point \in Points, transform \in PointFrames,
       include_daughters \in BOOLEAN :
         AskInside(b, point, transform, include_daughters)
Roles ==
    \/ \E b \in DOMAIN volumes, roles \in RoleValues : SetRoles(b, roles)
    \/ \E b \in DOMAIN volumes : ClearRoles(b)
    \/ \E b \in DOMAIN volumes : GetRoles(b)
OnNode == Containment \/ Roles

Next ==
    \/ OnNode
    \/ \E g \in geometries : AskId(g)
    \/ Construction(Inputs, MaxGeometries)
    \/ Primary(MaxBorrows, QueryPaths)
    \/ Secondary(MaxGoupil)
    \/ Queries(Frames)

Spec == Init /\ [][Next]_vars

\* The leases alone, on a description that builds and one that fails, and
\* on one node and one path that is no node.
LeaseInputs == {<< Nested, "Bvh" >>, << BadShape, "Geant4" >>}
LeasePaths == {"W.A", Unknown}
NextLease ==
    \/ Construction(LeaseInputs, MaxGeometries)
    \/ Primary(MaxBorrows, LeasePaths)
    \/ Secondary(MaxGoupil)
SpecLease == Init /\ [][NextLease]_vars

\* The queries of the primary caller on its containers.
QueryGeometries == 1
QueryBorrows == 1
NextQuery ==
    \/ Construction(LeaseInputs, QueryGeometries)
    \/ Primary(QueryBorrows, QueryPaths)
    \/ Queries(Frames)
SpecQuery == Init /\ [][NextQuery]_vars

\* The constructions alone, on every description.
BuildGeometries == 2
NextBuild ==
    \/ Construction(Inputs, BuildGeometries)
    \/ \E g \in geometries : drop_geometry(g)
SpecBuild == Init /\ [][NextBuild]_vars

\* An envelope with a safety margin around two boxes, the second one
\* placed and turned; the sizes are odd numbers of cm, so that every
\* half sum of the limits is a whole number of mm.
Envelope(safety, a, b) ==
    Volume("W", EnvelopeShape(safety), "G4_AIR", Zero3, 0, 0, << >>, << >>,
           << a, b >>)
EnvelopeSizes == {Vec3(1, 1, 1), Vec3(3, 1, 1)}
TurnedSizes == {Vec3(1, 1, 1), Vec3(1, 3, 1)}
EnvelopePositions == {Vec3(5, 0, 0), Zero3, Vec3(-3, 4, 0)}
EnvelopeMargins == {0, 1, 2}
EnvelopeInputs ==
    {<< Envelope(safety,
            Leaf("A", BoxShape(sa[1], sa[2], sa[3]), "G4_WATER", Zero3, 0, 0),
            Leaf("B", BoxShape(sb[1], sb[2], sb[3]), "G4_WATER", position,
                 rotation, 0)), "Bvh" >> :
        safety \in EnvelopeMargins, sa \in EnvelopeSizes,
        sb \in TurnedSizes, position \in EnvelopePositions,
        rotation \in {0, 1}}
EnvelopeGeometries == 1
NextEnvelope ==
    \/ Construction(EnvelopeInputs, EnvelopeGeometries)
    \/ \E g \in geometries : drop_geometry(g)
SpecEnvelope == Init /\ [][NextEnvelope]_vars

\* A box around two boxes A and B, each placed and turned or not, B taken
\* out of A as a subtraction of A or as an overlap pair of the mother, and
\* the same with a third box taken out of A as well.
Subtracted(pa, ra, pb, rb, declared) ==
    Volume("W", BoxShape(20, 20, 20), "G4_AIR", Zero3, 0, 0, << >>,
           IF declared = "overlap" THEN << << "A", "B" >> >> ELSE << >>,
      << Volume("A", BoxShape(4, 4, 4), "G4_WATER", pa, ra, 0,
                CASE declared = "overlap" -> << >>
                  [] declared = "subtract" -> << "B" >>
                  [] declared = "both" -> << "B", "C" >>,
                << >>, << >>),
         Leaf("B", BoxShape(2, 2, 2), "G4_WATER", pb, rb, 0),
         Leaf("C", BoxShape(2, 2, 2), "G4_AIR", Vec3(0, 0, 1), 0, 0) >>)
SubtractPositions == {Zero3, Vec3(3, 0, 0)}
SubtractInputs ==
    {<< Subtracted(pa, ra, pb, rb, declared), "Bvh" >> :
        pa \in SubtractPositions, ra \in {0, 1},
        pb \in SubtractPositions \cup {Vec3(0, 2, 0)}, rb \in {0, 3},
        declared \in {"overlap", "subtract", "both"}}
SubtractGeometries == 1
NextSubtract ==
    \/ Construction(SubtractInputs, SubtractGeometries)
    \/ \E g \in geometries : drop_geometry(g)
SpecSubtract == Init /\ [][NextSubtract]_vars

\* Successful and failed constructions in any order, the borrows asked
\* for their id and dropped.
IdGeometries == 3
IdInputs ==
    {<< Scenario, "Bvh" >>, << BadShape, "Geant4" >>,
     << BadMaterial, "Geant4" >>}
NextIds ==
    \/ Construction(IdInputs, IdGeometries)
    \/ \E g \in geometries : AskId(g)
    \/ \E g \in geometries : drop_geometry(g)
SpecIds == Init /\ [][NextIds]_vars

\* The queries along a chain of four nested volumes.
DeepGeometries == 1
DeepBorrows == 1
DeepInputs == {<< Deep, "Bvh" >>}
DeepPaths == {"W", "W.A.C.D"}
DeepFrames == {"W", "W.A.C", Unknown}
NextDeep ==
    \/ Construction(DeepInputs, DeepGeometries)
    \/ Primary(DeepBorrows, DeepPaths)
    \/ Queries(DeepFrames)
SpecDeep == Init /\ [][NextDeep]_vars

\* The calls on one node of a world of boxes.
NodeGeometries == 1
NodeBorrows == 1
NodeInputs == {<< Scenario, "Bvh" >>, << Turned, "Bvh" >>}
NodePaths == {"W", "W.A", "W.B"}
NextNode ==
    \/ Construction(NodeInputs, NodeGeometries)
    \/ Primary(NodeBorrows, NodePaths)
    \/ Containment
SpecNode == Init /\ [][NextNode]_vars

\* The calls on the roles of two sibling nodes, one built sensitive.
RoleGeometries == 1
RoleBorrows == 2
RoleInputs == {<< Turned, "Bvh" >>}
RolePaths == {"W.A", "W.B"}
NextRoles ==
    \/ Construction(RoleInputs, RoleGeometries)
    \/ Primary(RoleBorrows, RolePaths)
    \/ Roles
SpecRoles == Init /\ [][NextRoles]_vars

(***************************************************************************)
(* What the properties speak of.                                           *)
(***************************************************************************)
\* The root pointer of a container, and the containers not yet destroyed.
Root(g) == Node(g, data[g].world.name)
Alive == {g \in DOMAIN data : data[g].alive}

\* The leases outstanding on a container: its GeometryBorrow, its
\* VolumeBorrows and the roots handed to the secondary consumer.
VolumeLeases(g) ==
    BagSize([b \in {c \in DOMAIN volumes : c.geometry = g} |-> volumes[b]])
GoupilLeases(g) ==
    IF Root(g) \in DOMAIN goupil THEN goupil[Root(g)] ELSE 0
Leases(g) ==
    (IF g \in geometries THEN 1 ELSE 0) + VolumeLeases(g) + GoupilLeases(g)

\* A container is destroyed by the step.
Destroyed(g) == data[g].alive /\ ~data'[g].alive

(***************************************************************************)
(* C1.  The container is destroyed exactly at the drop that brings the     *)
(* number of drops up to the number of clones: while it lives its count is *)
(* the number of outstanding leases, at least one, and its root is         *)
(* registered; the step that destroys it is the drop of its last lease,    *)
(* after which no lease is left and the registry holds its root no more;   *)
(* it is never destroyed again and nothing is freed twice.                 *)
(***************************************************************************)
LeaseCount ==
    /\ [](\A g \in Alive :
            /\ data[g].rc = Leases(g)
            /\ data[g].rc >= 1
            /\ Root(g) \in DOMAIN INSTANCES)
    /\ [](heap.twice = {})
    /\ [][\A g \in DOMAIN data :
            /\ Destroyed(g) =>
                 /\ data[g].rc = 1
                 /\ Leases(g) = 1
                 /\ Leases(g)' = 0
                 /\ Root(g) \notin DOMAIN INSTANCES'
            /\ ~data[g].alive => ~data'[g].alive]_vars

\* The drop of the secondary consumer was the last of two leases.
LastDropDestroys ==
    /\ LAST_ID = 1
    /\ last = Last("DropGeometry", TRUE)
    /\ 1 \in DOMAIN data /\ ~data[1].alive
    /\ Root(1) \notin DOMAIN INSTANCES

(***************************************************************************)
(* C2.  A container is not destroyed while the secondary consumer holds    *)
(* the root NewGeometry returned, whatever the primary caller drops, nor   *)
(* by DropGeometry while the primary caller still holds a borrow: a step   *)
(* destroys a container only when it leaves no holder of either kind.      *)
(***************************************************************************)
IndependentLeases ==
    [][\A g \in DOMAIN data :
          Destroyed(g) =>
             /\ Root(g) \notin DOMAIN goupil'
             /\ g \notin geometries'
             /\ \A b \in DOMAIN volumes' : b.geometry # g]_vars

\* The primary caller dropped everything; the secondary consumer's root
\* still belongs to a living container.
OnlyGoupilHolds ==
    \E R \in DOMAIN goupil :
        /\ data[R.geo].alive
        /\ data[R.geo].rc = goupil[R]
        /\ geometries = {}
        /\ DOMAIN volumes = {}

(***************************************************************************)
(* C3.  As long as a VolumeBorrow exists, its container is not destroyed   *)
(* and its node is the entry of the container's index under its path.      *)
(***************************************************************************)
BorrowedNodeValid ==
    \A b \in DOMAIN volumes :
        /\ data[b.geometry].alive
        /\ b.volume.path \in DOMAIN data[b.geometry].elements
        /\ data[b.geometry].elements[b.volume.path] = b.volume

\* A VolumeBorrow outlives the GeometryBorrow it was obtained from.
BorrowOutlivesGeometry ==
    \E b \in DOMAIN volumes : b.geometry \notin geometries

(***************************************************************************)
(* C4.  After a create_geometry that failed, nothing the call allocated is *)
(* left on the heap, the registry holds no root of the call, the caller    *)
(* has no borrow of it and the error slot holds the error.                 *)
(***************************************************************************)
FailureCleansUp ==
    last = Last("create_geometry", FALSE) =>
        /\ \A o \in heap.live : o.geo # LAST_ID
        /\ \A r \in DOMAIN INSTANCES : r.geo # LAST_ID
        /\ LAST_ID \notin geometries
        /\ any_error(error)

(***************************************************************************)
(* C5.  The registry holds an entry for a root if and only if the root is  *)
(* that of a container built successfully and not yet destroyed, and the   *)
(* entry is that container.                                                *)
(***************************************************************************)
RegistryExact ==
    /\ DOMAIN INSTANCES = {Root(g) : g \in Alive}
    /\ \A g \in Alive : INSTANCES[Root(g)] = g

(***************************************************************************)
(* The descriptions the builder is meant for.                              *)
(***************************************************************************)
Names(vs) == {vs[i].name : i \in DOMAIN vs}

\* Sibling names unique, pairs naming direct children, materials defined.
RECURSIVE Listed(_)
Listed(volume) ==
    /\ \A i, j \in DOMAIN volume.volumes :
          volume.volumes[i].name = volume.volumes[j].name => i = j
    /\ \A k \in DOMAIN volume.overlaps :
          /\ volume.overlaps[k][1] \in Names(volume.volumes)
          /\ volume.overlaps[k][2] \in Names(volume.volumes)
    /\ \A i \in DOMAIN volume.volumes :
          \A k \in DOMAIN volume.volumes[i].subtract :
             volume.volumes[i].subtract[k] \in Names(volume.volumes)
    /\ get_material(volume.material)
    /\ \A i \in DOMAIN volume.volumes : Listed(volume.volumes[i])

\* The facets of every shape are accepted by the solid that takes them.
RECURSIVE ValidShapes(_)
ValidShapes(volume) ==
    /\ volume.shape.valid
    /\ \A i \in DOMAIN volume.volumes : ValidShapes(volume.volumes[i])
Buildable(volume, algorithm) == algorithm = "Bvh" \/ ValidShapes(volume)

\* The nodes of a description, each with its parent ("" for the root's).
RECURSIVE Parents(_, _)
Parents(volume, path) ==
    {<< Pathname(path, volume.name), path >>}
        \cup UNION {Parents(volume.volumes[i], Pathname(path, volume.name)) :
                      i \in DOMAIN volume.volumes}

RECURSIVE NodeCount(_)
RECURSIVE NodeCounts(_)
NodeCount(volume) == 1 + NodeCounts(volume.volumes)
NodeCounts(vs) ==
    IF Len(vs) = 0 THEN 0 ELSE NodeCount(Head(vs)) + NodeCounts(Tail(vs))

\* The placements under a placement, itself included.
RECURSIVE Placements(_)
RECURSIVE PlacementsOf(_)
Placements(physical) ==
    << physical.name >> \o PlacementsOf(physical.logical.daughters)
PlacementsOf(daughters) ==
    IF Len(daughters) = 0 THEN << >>
    ELSE Placements(Head(daughters)) \o PlacementsOf(Tail(daughters))
Range(seq) == {seq[i] : i \in DOMAIN seq}

\* One placement per node of the description, the path index with one
\* entry per node under its dotted path, the parent index with the parent
\* of every node and null for the root.
Indexed(g, volume) ==
    /\ Len(Placements(data[g].world)) = NodeCount(volume)
    /\ Range(Placements(data[g].world)) = Paths(volume, "")
    /\ Cardinality(Paths(volume, "")) = NodeCount(volume)
    /\ DOMAIN data[g].elements = Paths(volume, "")
    /\ \A p \in Paths(volume, "") : data[g].elements[p] = Node(g, p)
    /\ DOMAIN data[g].mothers = {Node(g, p) : p \in Paths(volume, "")}
    /\ \A pair \in Parents(volume, "") :
          data[g].mothers[Node(g, pair[1])] =
             IF pair[2] = "" THEN NullNode ELSE Node(g, pair[2])

(***************************************************************************)
(* C6.  For every description with unique sibling names, pairs naming      *)
(* direct children only, defined materials and facets the chosen solid     *)
(* accepts, create_geometry succeeds, and the container it returns has,    *)
(* until it is destroyed, one placement per node, one entry of elements    *)
(* per node under its dotted path and in mothers the parent of every node, *)
(* null for the root.                                                      *)
(***************************************************************************)
WellFormedBuilds ==
    \A g \in DOMAIN specs :
        Listed(specs[g].volume)
            /\ Buildable(specs[g].volume, specs[g].algorithm) =>
                /\ g \in DOMAIN data
                /\ g \in Alive => Indexed(g, specs[g].volume)

\* A description with an overlap pair and a displaced envelope root was
\* just built.
PatchedWasBuilt ==
    /\ last = Last("create_geometry", TRUE)
    /\ LAST_ID \in Alive
    /\ specs[LAST_ID].volume = Patched
    /\ Listed(Patched) /\ Buildable(Patched, specs[LAST_ID].algorithm)

\* C6 as written, the facets left aside.
ListedBuilds ==
    \A g \in DOMAIN specs :
        Listed(specs[g].volume) =>
            /\ g \in DOMAIN data
            /\ g \in Alive => Indexed(g, specs[g].volume)

(***************************************************************************)
(* C7.  No step changes elements or mothers of a container that lives      *)
(* before and after it.                                                    *)
(***************************************************************************)
IndexReadOnly ==
    [][\A g \in Alive :
          data'[g].alive =>
             /\ data'[g].elements = data[g].elements
             /\ data'[g].mothers = data[g].mothers]_vars

(***************************************************************************)
(* C8.  What a fallible operation reports does not depend on what an       *)
(* earlier operation left in the error slot: in every state, each query    *)
(* returns what it returns from a cleared slot.                            *)
(***************************************************************************)
ErrorIsOwn ==
    \A b \in DOMAIN volumes, frame \in Frames :
        /\ compute_transform(data[b.geometry], b.volume, frame, error).null
              = compute_transform(data[b.geometry], b.volume, frame,
                                  clear_error).null
        /\ compute_box(data[b.geometry], b.volume, frame, error).box
              = compute_box(data[b.geometry], b.volume, frame,
                            clear_error).box
        /\ compute_origin(data[b.geometry], b.volume, frame, error).origin
              = compute_origin(data[b.geometry], b.volume, frame,
                               clear_error).origin

(***************************************************************************)
(* C9.  A query naming a path that is no node of the container fails with  *)
(* ValueError "unknown volume '<path>'" and returns the neutral result:    *)
(* a null handle and no lease for borrow_volume, null for                  *)
(* compute_transform, zeros for compute_box and compute_origin.            *)
(***************************************************************************)
IsUnknown(g, path) ==
    path \notin DOMAIN data[g].elements \/ data[g].elements[path] = NullNode

UnknownVolume(path) == ValueError("unknown volume", path, "")

UnknownPathFails ==
    /\ [](\A g \in geometries, name \in QueryPaths :
            IsUnknown(g, name) =>
               /\ get_volume(name, data[g].elements, error).volume = NullNode
               /\ get_volume(name, data[g].elements, error).error
                     = UnknownVolume(name))
    /\ [](\A b \in DOMAIN volumes, frame \in Frames \ {""} :
            IsUnknown(b.geometry, frame) =>
               /\ compute_transform(data[b.geometry], b.volume, frame,
                                    error).null
               /\ compute_transform(data[b.geometry], b.volume, frame,
                                    error).error = UnknownVolume(frame)
               /\ compute_box(data[b.geometry], b.volume, frame, error).box
                     = ZeroBox
               /\ compute_box(data[b.geometry], b.volume, frame, error).error
                     = UnknownVolume(frame)
               /\ compute_origin(data[b.geometry], b.volume, frame,
                                 error).origin = Zero3
               /\ compute_origin(data[b.geometry], b.volume, frame,
                                 error).error = UnknownVolume(frame))
    /\ [][last'.op = "borrow_volume" /\ ~last'.ok =>
            /\ volumes' = volumes
            /\ \A g \in DOMAIN data : data'[g].rc = data[g].rc
            /\ error'.what = "unknown volume"]_vars

\* compute_box was just given a frame that is no node.
UnknownFrameAsked ==
    /\ last = Last("compute_box", FALSE)
    /\ error = UnknownVolume(Unknown)
    /\ DOMAIN volumes # {}

(***************************************************************************)
(* C10.  For a node and a frame that is another node of the container,     *)
(* compute_transform succeeds if and only if the frame is a proper         *)
(* ancestor of the node, and fails otherwise with ValueError "'<frame>'    *)
(* does not contain '<volume>'".                                           *)
(***************************************************************************)
\* The pairs << ancestor, descendant >> of a description.
RECURSIVE Lineage(_, _)
Lineage(volume, path) ==
    {<< Pathname(path, volume.name), d >> :
        d \in PathsOf(volume.volumes, Pathname(path, volume.name))}
        \cup UNION {Lineage(volume.volumes[i], Pathname(path, volume.name)) :
                      i \in DOMAIN volume.volumes}

AncestorsOnly ==
    \A b \in DOMAIN volumes :
        \A frame \in Paths(specs[b.geometry].volume, "") \ {b.volume.path} :
            IF << frame, b.volume.path >>
                  \in Lineage(specs[b.geometry].volume, "")
            THEN ~compute_transform(data[b.geometry], b.volume, frame,
                                    error).null
            ELSE /\ compute_transform(data[b.geometry], b.volume, frame,
                                      error).null
                 /\ compute_transform(data[b.geometry], b.volume, frame,
                                      error).error
                       = ValueError("does not contain", frame, b.volume.path)

(***************************************************************************)
(* C11.  For nested volumes A containing B containing C, at any depth, the *)
(* transform of C in frame A is the transform of B in frame A followed by  *)
(* the transform of C in frame B; the transform of a node in the frame of  *)
(* its parent is the local transform of its placement.  All of them are    *)
(* returned when the call starts from a cleared error slot.                *)
(***************************************************************************)
\* The law for volume c of container g and frames a, b, from slot e.
Composes(g, c, a, b, e) ==
    (/\ ~compute_transform(data[g], c, a, e).null
     /\ ~compute_transform(data[g], Node(g, b), a, e).null
     /\ ~compute_transform(data[g], c, b, e).null) =>
        compute_transform(data[g], c, a, e).transform
           = Product(compute_transform(data[g], Node(g, b), a, e).transform,
                     compute_transform(data[g], c, b, e).transform)

ComposedTransform ==
    \A v \in DOMAIN volumes :
        /\ \A a, b \in Paths(specs[v.geometry].volume, "") :
              (/\ << a, b >> \in Lineage(specs[v.geometry].volume, "")
               /\ << b, v.volume.path >>
                     \in Lineage(specs[v.geometry].volume, "")) =>
                 /\ Composes(v.geometry, v.volume, a, b, error)
                 /\ Composes(v.geometry, v.volume, a, b, clear_error)
                 /\ ~compute_transform(data[v.geometry], v.volume, a,
                                       clear_error).null
        /\ \A pair \in Parents(specs[v.geometry].volume, "") :
              (pair[1] = v.volume.path /\ pair[2] # "") =>
                 compute_transform(data[v.geometry], v.volume, pair[2],
                                   clear_error).transform
                    = placement_transform(FindPlacement(
                          data[v.geometry].world, v.volume.path))

\* The transform of the innermost volume was resolved in the frame of the
\* world, along placements whose transforms do not commute.
DeepTransformResolved ==
    /\ last = Last("compute_transform", TRUE)
    /\ error = NoError
    /\ \E v \in DOMAIN volumes :
          /\ v.volume.path = "W.A.C.D"
          /\ Product(compute_transform(data[v.geometry],
                         Node(v.geometry, "W.A.C"), "W", error).transform,
                     compute_transform(data[v.geometry], v.volume, "W.A.C",
                         error).transform)
                # Product(compute_transform(data[v.geometry], v.volume,
                              "W.A.C", error).transform,
                          compute_transform(data[v.geometry],
                              Node(v.geometry, "W.A.C"), "W",
                              error).transform)

(***************************************************************************)
(* C12.  A query of a volume in its own frame (its own path, or the empty  *)
(* frame for the world) resolves to the identity without looking the index *)
(* up: compute_transform returns the identity, compute_box the extent of   *)
(* the volume's own solid in cm and compute_origin (0, 0, 0).              *)
(***************************************************************************)
\* The frames that name the volume itself.
OwnFrames(g, volume) ==
    {volume.path} \cup (IF volume.path = data[g].world.name THEN {""} ELSE {})

\* The law for volume v of container g, from slot e.
OwnFrame(g, volume, e) ==
    \A frame \in OwnFrames(g, volume) :
        /\ ~compute_transform(data[g], volume, frame, e).null
        /\ compute_transform(data[g], volume, frame, e).transform = Identity
        /\ compute_transform(data[g], volume, frame, e).geometry = data[g]
        /\ compute_box(data[g], volume, frame, e).box
              = box_extent(GetExtent(FindPlacement(data[g].world,
                                         volume.path).logical.solid))
        /\ compute_origin(data[g], volume, frame, e).origin = Zero3

SelfFrame ==
    \A v \in DOMAIN volumes : OwnFrame(v.geometry, v.volume, error)

(***************************************************************************)
(* C13.  In the world of a 10 cm box around a 2 cm box at (3, 0, 0) cm,    *)
(* inside([3, 0, 0], identity, include_daughters) on the world returns     *)
(* "inside" when the daughters are included, the point being inside the    *)
(* solid of the world, and "outside" when they are excluded, the point     *)
(* being inside the daughter.                                              *)
(***************************************************************************)
\* The borrows of the world of a container built from the scenario.
ScenarioWorlds ==
    {v \in DOMAIN volumes :
        specs[v.geometry].volume = Scenario /\ v.volume.path = "W"}

DaughterPointInScenario ==
    \A v \in ScenarioWorlds :
        /\ inside(data[v.geometry], v.volume, Vec3(3, 0, 0), Identity, TRUE)
              = "kInside"
        /\ inside(data[v.geometry], v.volume, Vec3(3, 0, 0), Identity, FALSE)
              = "kOutside"

\* The question of the scenario was just asked, daughters included.
ScenarioAsked ==
    /\ ScenarioWorlds # {}
    /\ last.op = "inside"
    /\ last.volume.path = "W"
    /\ last.point = Vec3(3, 0, 0)
    /\ last.transform = Identity
    /\ last.include_daughters
    /\ last.result = "kInside"

\* C13 as written: "outside" with the daughters included.
DaughterPointOutside ==
    \A v \in ScenarioWorlds :
        inside(data[v.geometry], v.volume, Vec3(3, 0, 0), Identity, TRUE)
           = "kOutside"

(***************************************************************************)
(* C14.  With the daughters excluded, inside returns the answer of the     *)
(* node's own solid when the point is not strictly inside it; when it is,  *)
(* the result is "inside" exactly when the point is outside every direct   *)
(* daughter, each asked in its own frame, "outside" when the point is      *)
(* inside a direct daughter and "surface" when it is on the surface of     *)
(* one.                                                                    *)
(***************************************************************************)
\* The answers of the direct daughters of a placement to a local point.
DaughterAnswers(physical, point) ==
    {Inside(physical.logical.daughters[i].logical.solid,
            InverseTransformPoint(
                Transform(physical.logical.daughters[i].rotation,
                          physical.logical.daughters[i].translation),
                point)) :
        i \in DOMAIN physical.logical.daughters}

\* The law for a placement, a local point, the answer own of the solid of
\* the placement and the result r of inside.
Excludes(physical, point, own, r) ==
    IF own # "kInside" THEN r = own
    ELSE /\ r = "kInside" <=> DaughterAnswers(physical, point) \subseteq
                                 {"kOutside"}
         /\ r \in {"kInside", "kOutside", "kSurface"}
         /\ r = "kOutside" => "kInside" \in DaughterAnswers(physical, point)
         /\ r = "kSurface" => "kSurface" \in DaughterAnswers(physical, point)

ExcludedDaughters ==
    \A v \in DOMAIN volumes, point \in Points, transform \in PointFrames :
        Excludes(FindPlacement(data[v.geometry].world, v.volume.path),
                 local_point(point, transform),
                 Inside(FindPlacement(data[v.geometry].world,
                                      v.volume.path).logical.solid,
                        local_point(point, transform)),
                 inside(data[v.geometry], v.volume, point, transform, FALSE))

\* A point on the surface of a turned daughter was just asked, the
\* daughters excluded.
TurnedSurfaceAsked ==
    /\ last.op = "inside"
    /\ ~last.include_daughters
    /\ last.volume.path = "W"
    /\ last.point = Vec3(3, 1, 0)
    /\ last.transform = Identity
    /\ last.result = "kSurface"
    /\ \E v \in DOMAIN volumes : specs[v.geometry].volume = Turned

(***************************************************************************)
(* C15.  When Volume Assembly fails at a node, every logical volume,       *)
(* placement, sensitive detector and solid taken out of the table is freed *)
(* exactly once before the failure reaches the constructor, the solids     *)
(* left in the table and the orphans are freed exactly once afterwards:    *)
(* nothing of the call stays allocated, nothing is freed twice and no part *)
(* of the tree stays reachable.                                            *)
(***************************************************************************)
\* What the constructor leaves of a description, built first in the process.
Built(g) ==
    NewGeometryData(specs[g].volume, specs[g].algorithm, 0, << >>, EmptyHeap)

\* The calls that failed in Volume Assembly.
FailedInVolumes ==
    {g \in DOMAIN specs :
        specs[g].assembly.error.what = "undefined material"}

UnwoundVolumes ==
    /\ \A g \in FailedInVolumes :
          \* when build_volumes returns: the solids of the table and the
          \* orphans, nothing else, nothing freed twice
          /\ Built(g).assembly.heap.twice = {}
          /\ Built(g).assembly.heap.live =
                {SolidObject(1, Built(g).assembly.solids[p]) :
                    p \in DOMAIN Built(g).assembly.solids}
                \cup {SolidObject(1, Built(g).assembly.orphans[i]) :
                        i \in DOMAIN Built(g).assembly.orphans}
          \* when the constructor returns
          /\ Built(g).heap = EmptyHeap
          /\ Built(g).this.world = NullPlacement
          /\ g \notin DOMAIN data
          /\ \A r \in DOMAIN INSTANCES : r.geo # g
    /\ (last = Last("create_geometry", FALSE) /\ LAST_ID \in FailedInVolumes)
          => /\ \A o \in heap.live : o.geo # LAST_ID
             /\ LAST_ID \notin geometries
    /\ heap.twice = {}

(***************************************************************************)
(* C16.  Whenever Solid Assembly succeeds on a tree of the data model      *)
(* (sibling names unique, pairs naming direct children), the solid table   *)
(* holds one entry per node of the tree, under the node's dotted path, and *)
(* no other key, before and after the displacement of the top solid; the   *)
(* subtraction and overlap patches replaced solids and changed no key.     *)
(***************************************************************************)
\* The invariant of a description: sibling names unique, pairs naming
\* direct children.
RECURSIVE Named(_)
Named(volume) ==
    /\ \A i, j \in DOMAIN volume.volumes :
          volume.volumes[i].name = volume.volumes[j].name => i = j
    /\ \A k \in DOMAIN volume.overlaps :
          /\ volume.overlaps[k][1] \in Names(volume.volumes)
          /\ volume.overlaps[k][2] \in Names(volume.volumes)
    /\ \A i \in DOMAIN volume.volumes :
          \A k \in DOMAIN volume.volumes[i].subtract :
             volume.volumes[i].subtract[k] \in Names(volume.volumes)
    /\ \A i \in DOMAIN volume.volumes : Named(volume.volumes[i])

\* What build_solids returns for a description, built first in the process.
Top(g) ==
    build_solids(specs[g].volume, specs[g].algorithm, "", Assembly(1, EmptyHeap))

\* The table has one solid per node of the description, under its path.
Keyed(solids, volume) ==
    /\ DOMAIN solids = Paths(volume, "")
    /\ Cardinality(DOMAIN solids) = NodeCount(volume)
    /\ \A p \in DOMAIN solids : solids[p] # NullSolid /\ solids[p].path = p

OneEntryPerNode ==
    \A g \in DOMAIN specs :
        Named(specs[g].volume) /\ Top(g).solid # NullSolid =>
            /\ Keyed(Top(g).st.solids, specs[g].volume)
            /\ Keyed(displace_top(specs[g].volume, Top(g).solid,
                                  Top(g).st).solids, specs[g].volume)

\* A displaced world with a subtraction and an overlap patch was assembled.
PatchedTableBuilt ==
    /\ last = Last("create_geometry", TRUE)
    /\ specs[LAST_ID].volume = Rich
    /\ Named(Rich)
    /\ Top(LAST_ID).solid # NullSolid
    /\ Len(Top(LAST_ID).st.booleans) = 2
    /\ displace_top(Rich, Top(LAST_ID).solid, Top(LAST_ID).st).solids["W"].type
          = "DisplacedSolid"

(***************************************************************************)
(* C17.  Whenever Volume Assembly succeeds on a tree of the data model,    *)
(* every node took the entry of its own path out of the solid table, once  *)
(* and from a table that held it, so that the table is empty when the root *)
(* logical volume is returned and assert(solids.empty()) holds.            *)
(***************************************************************************)
\* The paths build_volumes went through, in order: the visits that follow
\* those of build_solids.
VolumeVisits(g) ==
    SubSeq(Built(g).assembly.visited, Len(Top(g).st.visited) + 1,
           Len(Built(g).assembly.visited))

TableDrained ==
    \A g \in DOMAIN specs :
        Named(specs[g].volume) /\ Built(g).this.world # NullPlacement =>
            /\ Len(VolumeVisits(g)) = NodeCount(specs[g].volume)
            /\ Range(VolumeVisits(g)) = Paths(specs[g].volume, "")
            /\ ~Built(g).assembly.undefined
            /\ Built(g).assembly.solids = << >>
            /\ ~Built(g).residue
            /\ \A p \in Paths(specs[g].volume, "") :
                  FindPlacement(Built(g).this.world, p).logical.solid.path = p

\* A tree of five nodes with patched solids went through Volume Assembly.
RichWasPlaced ==
    /\ last = Last("create_geometry", TRUE)
    /\ specs[LAST_ID].volume = Rich
    /\ Named(Rich)
    /\ Built(LAST_ID).this.world # NullPlacement
    /\ Len(VolumeVisits(LAST_ID)) = 5

(***************************************************************************)
(* C18.  In Solid Assembly and in Volume Assembly, once the subtree of a   *)
(* child failed no later sibling of that child is built, at its level or   *)
(* at the level of any ancestor, and create_geometry fails with the error  *)
(* that was recorded first.                                                *)
(***************************************************************************)
\* The nodes of a description, parents first and children in order.
RECURSIVE Preorder(_, _)
RECURSIVE PreorderOf(_, _)
Preorder(volume, path) ==
    << [path |-> Pathname(path, volume.name), volume |-> volume] >>
        \o PreorderOf(volume.volumes, Pathname(path, volume.name))
PreorderOf(vs, path) ==
    IF Len(vs) = 0 THEN << >>
    ELSE Preorder(Head(vs), path) \o PreorderOf(Tail(vs), path)

PathsIn(nodes) == [i \in DOMAIN nodes |-> nodes[i].path]

\* The last node of the subtree of the k-th node.
EndOf(nodes, k) == k + NodeCount(nodes[k].volume) - 1

\* The nodes whose solid the algorithm rejects; the nodes without material.
Rejected(nodes, algorithm) ==
    {k \in DOMAIN nodes :
        /\ algorithm = "Geant4"
        /\ nodes[k].volume.shape.type = "Tessellation"
        /\ ~nodes[k].volume.shape.valid}
Immaterial(nodes) ==
    {k \in DOMAIN nodes : ~get_material(nodes[k].volume.material)}

\* The rejected node whose solid is built first: children come before
\* their parent, siblings in order.
FirstRejected(nodes, bad) ==
    CHOOSE k \in bad : \A j \in bad : EndOf(nodes, k) <= EndOf(nodes, j)
\* The node without material that is reached first.
FirstImmaterial(nodes, bad) == CHOOSE k \in bad : \A j \in bad : k <= j

\* Solid Assembly stopped at the k-th node: nothing after its subtree was
\* entered, Volume Assembly never began, the error is that of the node.
StoppedInSolids(g, nodes, k) ==
    /\ Top(g).solid = NullSolid
    /\ Built(g).assembly.visited = SubSeq(PathsIn(nodes), 1, EndOf(nodes, k))
    /\ Built(g).error.what = "bad vertices for tessellation"
    /\ Built(g).error.a = nodes[k].path

\* Volume Assembly stopped at the k-th node: nothing after it was entered.
StoppedInVolumes(g, nodes, k) ==
    /\ Top(g).solid # NullSolid
    /\ Top(g).st.visited = PathsIn(nodes)
    /\ VolumeVisits(g) = SubSeq(PathsIn(nodes), 1, k)
    /\ Built(g).error.what = "undefined material"
    /\ Built(g).error.a = nodes[k].path

Stopped(g, nodes, algorithm) ==
    IF Rejected(nodes, algorithm) # {}
    THEN StoppedInSolids(g, nodes,
             FirstRejected(nodes, Rejected(nodes, algorithm)))
    ELSE IF Immaterial(nodes) # {}
    THEN StoppedInVolumes(g, nodes,
             FirstImmaterial(nodes, Immaterial(nodes)))
    ELSE Built(g).this.world # NullPlacement

FirstFailureStops ==
    /\ \A g \in DOMAIN specs :
          /\ Stopped(g, Preorder(specs[g].volume, ""), specs[g].algorithm)
          /\ Built(g).this.world = NullPlacement => g \notin DOMAIN data
    /\ \A g \in DOMAIN specs :
          (last.op = "create_geometry" /\ LAST_ID = g
              /\ Built(g).this.world = NullPlacement)
             => ~last.ok /\ error = Built(g).error

\* A description failed in each phase with a later sibling of the failed
\* node left, one of them with a second bad node further on.
SiblingsLeftOut ==
    /\ last = Last("create_geometry", FALSE)
    /\ specs[LAST_ID].volume = Cracked(Cracked(Rich, "", "W.A"), "", "W.B")
    /\ specs[LAST_ID].algorithm = "Geant4"
    /\ error.a = "W.A"
    /\ \E g \in DOMAIN specs :
          /\ specs[g].volume = Spoiled(Spoiled(Rich, "", "W.A.C"), "", "W.E")
          /\ Built(g).error.a = "W.A.C"
          /\ Len(VolumeVisits(g)) = 3

(***************************************************************************)
(* C19.  Every construction, failed or not, takes an id of its own, larger *)
(* than the id of every construction before it; the borrow returned by a   *)
(* successful construction answers id() with that id, and the answer of a  *)
(* borrow never changes.                                                   *)
(***************************************************************************)
\* A construction took place in the step.
Constructed == LAST_ID' # LAST_ID \/ specs' # specs

IdsOrdered ==
    /\ [](/\ DOMAIN specs = 1..LAST_ID
          /\ \A g \in geometries : GeometryBorrow_id(g) = g
          /\ \A g, h \in DOMAIN data : data[g].id = data[h].id => g = h
          /\ (last.op = "id" => last.result = last.geometry))
    /\ [][/\ Constructed =>
               /\ \A i \in DOMAIN specs : i < LAST_ID'
               /\ DOMAIN specs' = DOMAIN specs \cup {LAST_ID'}
               /\ \A i \in DOMAIN specs : specs'[i] = specs[i]
               /\ last'.op = "create_geometry"
               /\ last'.ok => /\ geometries' = geometries \cup {LAST_ID'}
                              /\ data'[LAST_ID'].id = LAST_ID'
               /\ ~last'.ok => geometries' = geometries
          /\ \A g \in geometries \cap geometries' :
                data'[g].id = data[g].id]_vars

\* The third construction succeeded after a failed one and its borrow was
\* asked for its id, the first borrow still held.
IdAskedAfterFailure ==
    /\ last.op = "id"
    /\ last.result = 3
    /\ geometries = {1, 3}
    /\ 2 \notin DOMAIN data
    /\ specs[2].volume = BadMaterial

(***************************************************************************)
(* C20.  get_roles on a node returns the roles of the latest set_roles on  *)
(* it when no clear_roles came after, and zero roles after clear_roles or  *)
(* when the node was built without detector and never given one; the three *)
(* calls leave the index maps, the lease count, the registry, the borrows  *)
(* and the roles of every other node as they were.                         *)
(***************************************************************************)
\* The roles held by the detector of the node at a path, zero without one.
RolesAt(geometry, path) ==
    IF FindPlacement(geometry.world, path).logical.sensitive.present
    THEN FindPlacement(geometry.world, path).logical.sensitive.roles
    ELSE 0

\* A call on the roles of volume left everything else as it was.
NothingElse(volume) ==
    /\ DOMAIN data' = DOMAIN data
    /\ \A g \in DOMAIN data : g # volume.geo => data'[g] = data[g]
    /\ data'[volume.geo].elements = data[volume.geo].elements
    /\ data'[volume.geo].mothers = data[volume.geo].mothers
    /\ data'[volume.geo].rc = data[volume.geo].rc
    /\ data'[volume.geo].alive = data[volume.geo].alive
    /\ \A p \in DOMAIN data[volume.geo].elements :
          p # volume.path =>
             RolesAt(data'[volume.geo], p) = RolesAt(data[volume.geo], p)
    /\ UNCHANGED << INSTANCES, LAST_ID, GOUPIL_GEOMETRY, geometries, volumes,
                    goupil, error >>

\* The roles of the nodes of g are those of its description.
RolesAsBuilt(g) ==
    \A k \in DOMAIN Preorder(specs'[g].volume, "") :
        RolesAt(data'[g], Preorder(specs'[g].volume, "")[k].path) =
            Preorder(specs'[g].volume, "")[k].volume.roles

RolesFollowCalls ==
    [][/\ last'.op = "set_roles" =>
            /\ RolesAt(data'[last'.volume.geo], last'.volume.path)
                  = last'.roles
            /\ NothingElse(last'.volume)
       /\ last'.op = "clear_roles" =>
            /\ RolesAt(data'[last'.volume.geo], last'.volume.path) = 0
            /\ NothingElse(last'.volume)
       /\ last'.op = "get_roles" =>
            /\ last'.result
                  = RolesAt(data[last'.volume.geo], last'.volume.path)
            /\ data' = data
            /\ NothingElse(last'.volume)
       /\ last'.op \notin {"set_roles", "clear_roles"} =>
            \A g \in Alive :
               data'[g].alive =>
                  \A p \in DOMAIN data[g].elements :
                     RolesAt(data'[g], p) = RolesAt(data[g], p)
       /\ (last'.op = "create_geometry" /\ last'.ok /\ LAST_ID' # LAST_ID) =>
            RolesAsBuilt(LAST_ID')]_vars

\* A node built without detector answers the roles it was given, its
\* sensitive sibling the roles it was built with.
GivenRolesRead ==
    /\ last.op = "get_roles"
    /\ last.volume.path = "W.A"
    /\ last.result = 2
    /\ specs[last.volume.geo].volume = Turned
    /\ RolesAt(data[last.volume.geo], "W.B") = 1

(***************************************************************************)
(* C21.  check() clears the error slot and checks the volumes parents      *)
(* first, daughters in order, from the world; the first volume whose check *)
(* records an error is the last one checked and its error is returned;     *)
(* without error every volume is checked once and nothing is returned.     *)
(***************************************************************************)
\* What check_overlaps goes through in container g when the checks of the
\* volumes in overlapping record an error.
Checked(g, overlapping) ==
    check_overlaps(data[g].world, overlapping,
                   [error |-> clear_error, checked |-> << >>])

\* The first volume of the sequence that is in overlapping.
FirstOf(seq, overlapping) ==
    CHOOSE k \in DOMAIN seq :
        /\ seq[k] \in overlapping
        /\ \A j \in 1..(k - 1) : seq[j] \notin overlapping

ChecksStop(g, overlapping) ==
    IF Range(Placements(data[g].world)) \cap overlapping = {}
    THEN /\ Checked(g, overlapping).checked = Placements(data[g].world)
         /\ Checked(g, overlapping).error = NoError
    ELSE /\ Checked(g, overlapping).checked =
               SubSeq(Placements(data[g].world), 1,
                      FirstOf(Placements(data[g].world), overlapping))
         /\ Checked(g, overlapping).error =
               ValueError("overlap",
                   Placements(data[g].world)[
                       FirstOf(Placements(data[g].world), overlapping)], "")

CheckStopsAtFirst ==
    /\ [](\A g \in geometries :
             \A overlapping \in SUBSET DOMAIN data[g].elements :
                ChecksStop(g, overlapping))
    /\ [][last'.op = "check" =>
             /\ last'.ok => error' = NoError
             /\ ~last'.ok =>
                   \E g \in geometries :
                      \E p \in DOMAIN data[g].elements :
                         error' = ValueError("overlap", p, "")
             /\ UNCHANGED << data, INSTANCES, geometries, volumes >>]_vars

\* A check failed on a volume with a daughter and a later sibling.
CheckFailedOnSibling ==
    /\ last = Last("check", FALSE)
    /\ error = ValueError("overlap", "W.A", "")
    /\ \E g \in geometries :
          /\ Checked(g, {"W.A", "W.B"}).checked = << "W", "W.A" >>
          /\ "W.B" \in Range(Placements(data[g].world))

(***************************************************************************)
(* C22.  The box envelope of a volume spans, on each axis, the union of    *)
(* the extents of its children, each taken through the child's local       *)
(* transform, widened by the safety margin on both sides; it is centred on *)
(* the middle of that union, as a displaced box when the middle is not the *)
(* origin.  Every child's extent lies within it, and with a margin of zero *)
(* its extent is the union, as for two 1 cm boxes at the origin and at     *)
(* (5, 0, 0) cm.                                                           *)
(***************************************************************************)
\* The extent of the i-th child of the root of g in the frame of the root.
ChildExtent(g, i) ==
    daughter_extent(
        Top(g).st.solids[Dotted(specs[g].volume.name,
                                specs[g].volume.volumes[i].name)],
        local_transform(specs[g].volume.volumes[i]))

\* lo and hi bound the extents of the children of the root of g on axis a,
\* and are reached.
IsUnion(g, a, lo, hi) ==
    /\ \A i \in DOMAIN specs[g].volume.volumes :
          lo <= ChildExtent(g, i).lo[a] /\ ChildExtent(g, i).hi[a] <= hi
    /\ \E i \in DOMAIN specs[g].volume.volumes : ChildExtent(g, i).lo[a] = lo
    /\ \E i \in DOMAIN specs[g].volume.volumes : ChildExtent(g, i).hi[a] = hi

\* The envelope of the root of g is the union widened by the margin.
Envelops(g, solid, margin) ==
    /\ \A a \in 1..3 :
          IsUnion(g, a, solid.lo[a] + margin, solid.hi[a] - margin)
    /\ solid.type = IF VAdd(solid.lo, solid.hi) = Zero3 THEN "Box"
                    ELSE "DisplacedSolid"
    /\ solid.type = "DisplacedSolid" =>
          \E k \in DOMAIN Top(g).st.orphans :
             /\ Top(g).st.orphans[k].type = "Box"
             /\ Top(g).st.orphans[k].hi
                   = VHalf(VSub(solid.hi, solid.lo))
             /\ Top(g).st.orphans[k].lo
                   = VNeg(VHalf(VSub(solid.hi, solid.lo)))

EnvelopeFits ==
    \A g \in DOMAIN specs :
        (/\ specs[g].volume.shape.type = "Envelope"
         /\ specs[g].volume.volumes # << >>
         /\ Top(g).solid # NullSolid) =>
            /\ Envelops(g, Top(g).solid, specs[g].volume.shape.safety * cm)
            /\ g \in Alive =>
                  data[g].world.logical.solid = Top(g).solid

\* The envelope of two 1 cm boxes at the origin and at (5, 0, 0) cm, with
\* no margin, was built: from -0.5 cm to 5.5 cm along x.
ScenarioEnveloped ==
    /\ last = Last("create_geometry", TRUE)
    /\ specs[LAST_ID].volume =
          Envelope(0,
              Leaf("A", BoxShape(1, 1, 1), "G4_WATER", Zero3, 0, 0),
              Leaf("B", BoxShape(1, 1, 1), "G4_WATER", Vec3(5, 0, 0), 0, 0))
    /\ data[LAST_ID].world.logical.solid.lo = Vec3(-5, -5, -5)
    /\ data[LAST_ID].world.logical.solid.hi = Vec3(55, 5, 5)
    /\ data[LAST_ID].world.logical.solid.type = "DisplacedSolid"

(***************************************************************************)
(* C23.  For each declared overlap or subtraction pair (A, B) of direct    *)
(* children, the entry of A in the solid table is replaced by the          *)
(* subtraction of B's solid from A's current solid, placed by tA *         *)
(* inverse(tB): nothing when neither child is translated or rotated,       *)
(* inverse(tB) when only B is, tA when only A is; the replaced solid of A  *)
(* is put on the orphans once.                                             *)
(***************************************************************************)
\* The pairs declared by the children of a volume, in order.
RECURSIVE ChildPairs(_)
ChildPairs(vs) ==
    IF Len(vs) = 0 THEN << >>
    ELSE Pairs(Head(vs).name, Head(vs).subtract) \o ChildPairs(Tail(vs))

\* The pairs applied at a node: the overlaps, then the subtractions.
NodePairs(volume) == volume.overlaps \o ChildPairs(volume.volumes)

\* The child of a volume with the given name.
Child(volume, name) ==
    volume.volumes[CHOOSE i \in DOMAIN volume.volumes :
                      volume.volumes[i].name = name]

\* The subtraction b is the one declared by pair at the node.
Applies(b, node, pair) ==
    /\ b.solid.path = Dotted(node.path, pair[1])
    /\ b.solid.type = "SubtractionSolid"
    /\ b.base.path = Dotted(node.path, pair[1])
    /\ b.tool.path = Dotted(node.path, pair[2])
    /\ b.transform =
          Product(local_transform(Child(node.volume, pair[1])),
                  Inverse(local_transform(Child(node.volume, pair[2]))))
    /\ (~is_translated(Child(node.volume, pair[1]))
        /\ ~is_rotated(Child(node.volume, pair[1]))) =>
          b.transform = Inverse(local_transform(Child(node.volume, pair[2])))
    /\ (~is_translated(Child(node.volume, pair[2]))
        /\ ~is_rotated(Child(node.volume, pair[2]))) =>
          b.transform = local_transform(Child(node.volume, pair[1]))

\* The number of pairs declared in a description.
RECURSIVE PairCount(_)
PairCount(nodes) ==
    IF Len(nodes) = 0 THEN 0
    ELSE Len(NodePairs(Head(nodes).volume)) + PairCount(Tail(nodes))

\* The subtractions of an assembly st are those declared in the
\* description, each on the solid the table held, the last one in the table.
Patches(st, nodes) ==
    /\ Len(st.booleans) = PairCount(nodes)
    /\ \A k \in DOMAIN nodes :
          \A j \in DOMAIN NodePairs(nodes[k].volume) :
             \E i \in DOMAIN st.booleans :
                Applies(st.booleans[i], nodes[k],
                        NodePairs(nodes[k].volume)[j])
    /\ \A i \in DOMAIN st.booleans :
          /\ Cardinality({o \in DOMAIN st.orphans :
                             st.orphans[o] = st.booleans[i].base}) = 1
          /\ st.booleans[i].base # st.booleans[i].solid
          /\ \/ st.solids[st.booleans[i].solid.path] = st.booleans[i].solid
             \/ \E j \in DOMAIN st.booleans :
                   j > i /\ st.booleans[j].base = st.booleans[i].solid
          /\ \/ st.booleans[i].base.type # "SubtractionSolid"
             \/ \E j \in DOMAIN st.booleans :
                   j < i /\ st.booleans[j].solid = st.booleans[i].base

SubtractionsPlaced ==
    \A g \in DOMAIN specs :
        (Named(specs[g].volume) /\ Top(g).solid # NullSolid)
           => Patches(Top(g).st, Preorder(specs[g].volume, ""))

\* A turned and placed box lost a turned and placed box and a third one.
TwoTakenOut ==
    /\ last = Last("create_geometry", TRUE)
    /\ specs[LAST_ID].volume =
          Subtracted(Vec3(3, 0, 0), 1, Vec3(0, 2, 0), 3, "both")
    /\ Len(Top(LAST_ID).st.booleans) = 2
    /\ Top(LAST_ID).st.booleans[1].transform
          # Product(Inverse(Transform(3, Vec3(0, 20, 0))),
                    Transform(1, Vec3(30, 0, 0)))
    /\ Top(LAST_ID).st.booleans[2].base = Top(LAST_ID).st.booleans[1].solid

(***************************************************************************)
(* C24.  The optimisation run by G4Goupil::NewGeometry creates a voxel     *)
(* header only on a logical volume that has none and has two daughters at  *)
(* least: over any number of calls on a container a logical volume gets a  *)
(* header once at most, a header is never replaced, and every header is    *)
(* freed once, when the container is destroyed.                            *)
(***************************************************************************)
\* Geometries handed to the transport engine over and over.
VoxelGeometries == 2
VoxelGoupil == 2
VoxelInputs == {<< Nested, "Bvh" >>, << Scenario, "Geant4" >>}
NextVoxel ==
    \/ Construction(VoxelInputs, VoxelGeometries)
    \/ \E g \in geometries : drop_geometry(g)
    \/ Secondary(VoxelGoupil)
SpecVoxel == Init /\ [][NextVoxel]_vars

\* The logical volume of the node of a container at a path.
LogicalAt(g, p) == FindPlacement(data[g].world, p).logical

HeaderOf(g, p) == Object(g, "G4SmartVoxelHeader", p, 0)

HeadersOnce ==
    /\ [](/\ heap.lost = {}
          /\ heap.twice = {}
          /\ \A g \in Alive :
                \A p \in Range(Placements(data[g].world)) :
                   /\ LogicalAt(g, p).voxel <=> HeaderOf(g, p) \in heap.live
                   /\ LogicalAt(g, p).voxel =>
                         Len(LogicalAt(g, p).daughters)
                            >= MIN_VOXEL_VOLUMES_LEVEL_1
          /\ \A o \in heap.live :
                o.kind = "G4SmartVoxelHeader" => o.geo \in Alive)
    /\ [][/\ \A g \in Alive :
                data'[g].alive =>
                   \A p \in Range(Placements(data[g].world)) :
                      LogicalAt(g, p).voxel =>
                         FindPlacement(data'[g].world, p).logical.voxel
          /\ (last'.op = "NewGeometry" /\ last'.ok) =>
                \A p \in Range(Placements(data[GOUPIL_GEOMETRY].world)) :
                   FindPlacement(data'[GOUPIL_GEOMETRY].world, p).logical.voxel
                      <=> \/ LogicalAt(GOUPIL_GEOMETRY, p).voxel
                          \/ Len(LogicalAt(GOUPIL_GEOMETRY, p).daughters)
                                >= MIN_VOXEL_VOLUMES_LEVEL_1]_vars

\* The geometry was handed out a second time, its header in place.
OptimisedAgain ==
    /\ last = Last("NewGeometry", TRUE)
    /\ BagSize(goupil) = 2
    /\ data[GOUPIL_GEOMETRY].rc = 3
    /\ data[GOUPIL_GEOMETRY].world.name = "W"
    /\ LogicalAt(GOUPIL_GEOMETRY, "W").voxel
    /\ ~LogicalAt(GOUPIL_GEOMETRY, "W.A").voxel
    /\ HeaderOf(GOUPIL_GEOMETRY, "W") \in heap.live

(***************************************************************************)
(* C25.  Whenever G4Goupil::NewGeometry is invoked, the container that the *)
(* last set_goupil designated is alive: designating a container keeps it   *)
(* from being destroyed, or the designation is withdrawn with it.          *)
(***************************************************************************)
DesignatedAlive ==
    [][(last'.op = "NewGeometry" /\ GOUPIL_GEOMETRY # 0) =>
          data[GOUPIL_GEOMETRY].alive]_vars

(***************************************************************************)
(* C26.  Looking a root up in the registry is a pure read: DropGeometry,   *)
(* through GeometryData::get, on a root that has no registered container   *)
(* adds no entry to the registry, changes no lease count and destroys no   *)
(* container.                                                              *)
(***************************************************************************)
\* The step is DropGeometry of a root the registry does not hold.
DroppedUnregistered ==
    /\ last'.op = "DropGeometry"
    /\ \E volume \in DOMAIN goupil :
          /\ goupil' = BagRemove(goupil, volume)
          /\ volume \notin DOMAIN INSTANCES

LookupIsRead ==
    [][DroppedUnregistered => (INSTANCES' = INSTANCES /\ data' = data)]_vars

(***************************************************************************)
(* C27.  Every sensitive detector, built with its volume or created by     *)
(* set_roles, is freed exactly once over any sequence of set_roles,        *)
(* clear_roles and the destruction of the container: clear_roles detaches  *)
(* the detector it frees, and the destruction frees the attached ones.     *)
(***************************************************************************)
Samplers == {o \in heap.live : o.kind = "SamplerImpl"}

\* The samplers attached to the logical volumes of a container.
Attached(g) ==
    {DetectorObject(g, LogicalAt(g, p)) :
        p \in {q \in Range(Placements(data[g].world)) :
                  LogicalAt(g, q).sensitive.present}}

DetectorsOnce ==
    /\ heap.twice = {}
    /\ heap.lost = {}
    /\ Samplers = UNION {Attached(g) : g \in Alive}

\* The sampler built with W.B was cleared, the one of W.A came from
\* set_roles.
SamplersExchanged ==
    /\ last.op = "clear_roles"
    /\ last.volume.path = "W.B"
    /\ \E g \in Alive :
          /\ ~LogicalAt(g, "W.B").sensitive.present
          /\ LogicalAt(g, "W.A").sensitive.present
          /\ Samplers = {Object(g, "SamplerImpl", "W.A", 0)}

(***************************************************************************)
(* C28.  run_simulation hands the events to BeamOn in bunches: when no     *)
(* error occurs the sizes sum to the number of events asked for, every     *)
(* size is between 1 and 100 and all but the last are 100; once an error   *)
(* is recorded during a bunch no other bunch is started and that error is  *)
(* returned.                                                               *)
(***************************************************************************)
\* The runs of a caller: up to MaxBunches full bunches and a rest.
MaxBunches == 2
Rests == {0, 1, bunch_size - 1}
Events == {q * bunch_size + r : q \in 0..MaxBunches, r \in Rests}
Agents == {1}
Engines == {"MixMaxRng", "RanecuEngine"}
InitRun == \E engine \in Engines : Started(engine)
NextRun ==
    \/ \E agent \in Agents, n \in Events : EnterRun(agent, n)
    \/ \E failed \in BOOLEAN : BeamOn(failed)
    \/ LeaveRun
SpecRun == InitRun /\ [][NextRun]_vars

RECURSIVE Sum(_)
Sum(sizes) == IF sizes = << >> THEN 0 ELSE Head(sizes) + Sum(Tail(sizes))

\* Sizes of bunches: none empty, none above 100, all full but the last.
InBunches(sizes) ==
    \A k \in DOMAIN sizes :
       /\ sizes[k] \in 1..bunch_size
       /\ k < Len(sizes) => sizes[k] = bunch_size

Bunches ==
    /\ [](InBunches(run.beams))
    /\ []((last.op = "run_simulation" /\ last.ok) =>
             (InBunches(last.beams) /\ Sum(last.beams) = last.n))
    /\ [][(run.pc # "idle" /\ any_error(error)) =>
             /\ last'.op = "run_simulation"
             /\ ~last'.ok
             /\ last'.beams = run.beams
             /\ last'.result = error]_vars

\* A run of 201 events returned: two full bunches and one event.
RunInThree ==
    /\ last.op = "run_simulation"
    /\ last.ok
    /\ last.n = 2 * bunch_size + 1
    /\ last.beams = << bunch_size, bunch_size, 1 >>

(***************************************************************************)
(* C29.  Whenever run_simulation returns, after an error also, the random  *)
(* engine that was active before the call is active again and RUN_AGENT is *)
(* null: RandomImpl::Switch alternates between installing the adapter,     *)
(* saving the engine it replaces, and restoring the saved engine, and      *)
(* run_simulation calls it twice.                                          *)
(***************************************************************************)
EngineRestored ==
    /\ [](/\ altEngine = "null" <=> theEngine # "RandomImpl"
          /\ altEngine = "null" <=> run.pc = "idle"
          /\ RUN_AGENT = 0 <=> run.pc = "idle"
          /\ run.pc # "idle" => altEngine = run.engine)
    /\ [][run.pc = "restore" =>
             /\ last'.op = "run_simulation"
             /\ last'.switches = 2
             /\ theEngine' = run.engine
             /\ RUN_AGENT' = 0
             /\ run'.pc = "idle"]_vars

\* A run stopped by an error in its first bunch returned, the engine of the
\* host active again.
StoppedRunRestored ==
    /\ last.op = "run_simulation"
    /\ ~last.ok
    /\ last.n > bunch_size
    /\ last.beams = << bunch_size >>
    /\ theEngine = "RanecuEngine"
    /\ RUN_AGENT = 0

(***************************************************************************)
(* C30.  Registering a mixture or a molecule is idempotent: a definition   *)
(* whose name is registered with the same hash reports no error and        *)
(* changes nothing; one whose name is registered with another hash reports *)
(* a ValueError of redefinition and leaves the entry as it is; one with an *)
(* undefined component reports a ValueError and adds no entry.             *)
(***************************************************************************)
\* The definitions a caller registers: two of a name, components that are
\* elements, materials of the registry or nothing known.
Mixtures ==
    { Mixture("X", 1, << "H", "O" >>), Mixture("X", 2, << "H" >>),
      Mixture("Y", 3, << "X", "G4_WATER" >>), Mixture("Y", 4, << "Q" >>) }
Molecules ==
    { Mixture("M", 5, << "H", "O" >>), Mixture("M", 6, << "O" >>),
      Mixture("N", 7, << "H", "G4_WATER" >>) }
NextMaterials ==
    \/ \E mixture \in Mixtures : AddMixture(mixture)
    \/ \E molecule \in Molecules : AddMolecule(molecule)
SpecMaterials == Init /\ [][NextMaterials]_vars

\* The step registers a definition.
Registering == last'.op \in {"add_mixture", "add_molecule"}
Registered(name) == name \in DOMAIN MATERIALS

RegistrationIdempotent ==
    [][Registering =>
          /\ (/\ Registered(last'.definition.name)
              /\ MATERIALS[last'.definition.name].hash
                    = last'.definition.hash) =>
                (last'.result = NoError /\ MATERIALS' = MATERIALS)
          /\ (/\ Registered(last'.definition.name)
              /\ MATERIALS[last'.definition.name].hash
                    # last'.definition.hash) =>
                /\ last'.result.type = "ValueError"
                /\ last'.result.what = "bad material (redefinition)"
                /\ MATERIALS' = MATERIALS
          /\ (/\ ~Registered(last'.definition.name)
              /\ \E k \in DOMAIN last'.definition.components :
                    /\ last'.definition.components[k] \notin NistElements
                    /\ last'.definition.components[k] \notin NistMaterials
                    /\ ~Registered(last'.definition.components[k])) =>
                (last'.result.type = "ValueError" /\ MATERIALS' = MATERIALS)
      ]_vars

====
